---- MODULE Spec2Model ----
(***************************************************************************)
(* Composition engine of ai-policies: conflict resolution between partials *)
(* sharing an identifier, dependency resolution, merging, protected-block  *)
(* preservation and the metadata header codec.                             *)
(*                                                                         *)
(* A partial is a record; the field ref stands for the identity of the     *)
(* JavaScript object (two partials with equal fields are still two         *)
(* objects), and is the position of the partial in the caller's list.      *)
(***************************************************************************)
EXTENDS Integers, Sequences, FiniteSets, TLC

VARIABLES
    pc,            \* position of the caller: "start" before the call, "done" after
    partials,      \* the caller's list of partials
    protectedIds,  \* protected identifiers handed to the call (an array)
    result,        \* what the call returned
    config,        \* the project configuration of a composition run
    options,       \* the options handed to compose
    content,       \* a document body handed to the metadata functions
    existing,      \* the generated file as it stands on disk
    clock,         \* the system clock read by new Date()
    previous,      \* the result of the preceding composition
    parsed         \* what parseMetadataFromHeader returned

vars == <<pc, partials, protectedIds, result, config, options, content,
          existing, clock, previous, parsed>>

\* the state of a composition run, untouched by the stand-alone calls
runVars == <<config, options, content, existing, clock, previous, parsed>>

(***************************************************************************)
(* Bounds of the model                                                     *)
(***************************************************************************)
MaxPartials == 3

MaxTierPartials == 2

MaxDeps == 2

MaxBlocks == 2

MaxComposePartials == 2

MaxTargetPartials == 2

MaxHeaderLen == 5

MaxMergePartials == 2

MaxValidatePartials == 3

MaxSyncPartials == 2

MaxLayeredPartials == 2

MaxPipelinePartials == 1

MaxResolvePartials == 2

MaxStack == 6

MaxTextLen == 6

MaxMarkerLen == 4

MaxFramePartials == 2

MaxTransformers == 3

MaxDocLen == 2

(***************************************************************************)
(* Universe of names                                                       *)
(***************************************************************************)
Ids == {"X", "Y"}

\* the configured extends array; a package's declaration index is its
\* position in it (0-based, as in the code)
Packages == <<"P1", "P2", "P3">>

NoResult == [kind |-> "none"]

\* no composition run is in progress
NoRun ==
    /\ config = NoResult
    /\ options = NoResult
    /\ content = <<>>
    /\ existing = <<>>
    /\ clock = 0
    /\ previous = NoResult
    /\ parsed = NoResult

Range(s) == {s[i] : i \in 1..Len(s)}

\* sequences over S of length 0..n
SeqsUpTo(S, n) == UNION {[1..k -> S] : k \in 0..n}

\* Array.prototype.sort with a comparator that subtracts two integer keys:
\* stable, ascending by key; keys[i] is the key of s[i]
StableSortByKey(s, keys) ==
    LET n == Len(s)
        rank(i) == Cardinality({j \in 1..n :
                       \/ keys[j] < keys[i]
                       \/ (keys[j] = keys[i] /\ j < i)}) + 1
    IN  [r \in 1..n |-> s[CHOOSE i \in 1..n : rank(i) = r]]

\* Array.prototype.slice(1)
Slice1(s) == IF Len(s) = 0 THEN <<>> ELSE Tail(s)

(***************************************************************************)
(* Positional model (v2.0): src/compose/utils.ts                           *)
(***************************************************************************)
Partial(ref, id, srcIdx) ==
    [ref |-> ref, id |-> id, packageName |-> Packages[srcIdx + 1],
     sourceIndex |-> srcIdx]

\* (a, b) => b.sourceIndex - a.sourceIndex orders by the negated index
BySourceIndexDesc(s) == [i \in 1..Len(s) |-> 0 - s[i].sourceIndex]

resolveConflictFirstInList(candidates, protectedSet) ==
    LET id == candidates[1].id
    IN  IF id \in protectedSet
        THEN [partialId |-> id, winner |-> candidates[1],
              overridden |-> Slice1(candidates), reason |-> "protected"]
        ELSE [partialId |-> id, winner |-> candidates[1],
              overridden |-> Slice1(candidates), reason |-> "last-wins"]

resolveConflict(candidates, protectedSet) ==
    LET id == candidates[1].id
        isProtected == id \in protectedSet
        sorted == StableSortByKey(candidates, BySourceIndexDesc(candidates))
    IN  IF isProtected
        THEN [partialId |-> id, winner |-> candidates[1],
              overridden |-> Slice1(candidates), reason |-> "protected"]
        ELSE [partialId |-> id, winner |-> sorted[1],
              overridden |-> Slice1(sorted), reason |-> "last-wins"]

\* the text of a warning, kept as its three variable parts
ProtectedWarning(resolution) ==
    [id |-> resolution.partialId,
     winnerPackage |-> resolution.winner.packageName,
     overriddenPackages |->
        [i \in 1..Len(resolution.overridden) |->
            resolution.overridden[i].packageName]]

Candidates(ps, id) == SelectSeq(ps, LAMBDA p : p.id = id)

RECURSIVE DedupLoop(_, _, _, _)
DedupLoop(ps, i, protectedSet, acc) ==
    IF i > Len(ps) THEN acc
    ELSE
      LET id == ps[i].id
          candidates == Candidates(ps, id)
          resolution == resolveConflict(candidates, protectedSet)
      IN  IF id \in acc.addedIds
          THEN DedupLoop(ps, i + 1, protectedSet, acc)
          ELSE IF Len(candidates) = 1
          THEN DedupLoop(ps, i + 1, protectedSet,
                 [acc EXCEPT !.partials = Append(@, candidates[1]),
                             !.addedIds = @ \cup {id}])
          ELSE DedupLoop(ps, i + 1, protectedSet,
                 [acc EXCEPT
                    !.partials = Append(@, resolution.winner),
                    !.conflicts = Append(@, resolution),
                    !.protectedWarnings =
                        IF resolution.reason = "protected"
                        THEN Append(@, ProtectedWarning(resolution))
                        ELSE @,
                    !.addedIds = @ \cup {id}])

\* the function with the conflicts never pushed
deduplicatePartialsWithoutRecords(ps, protIds) ==
    LET r == DedupLoop(ps, 1, Range(protIds),
                 [partials |-> <<>>, conflicts |-> <<>>,
                  protectedWarnings |-> <<>>, addedIds |-> {}])
    IN  [kind |-> "dedup", partials |-> r.partials, conflicts |-> <<>>,
         protectedWarnings |-> r.protectedWarnings]

deduplicatePartials(ps, protIds) ==
    LET r == DedupLoop(ps, 1, Range(protIds),
                 [partials |-> <<>>, conflicts |-> <<>>,
                  protectedWarnings |-> <<>>, addedIds |-> {}])
    IN  [kind |-> "dedup", partials |-> r.partials, conflicts |-> r.conflicts,
         protectedWarnings |-> r.protectedWarnings]

(***************************************************************************)
(* SpecDedup: a caller hands a list and a protected list to                *)
(* deduplicatePartials                                                     *)
(***************************************************************************)
DedupInputs ==
    {[i \in 1..Len(c) |-> Partial(i, c[i][1], c[i][2])] :
        c \in SeqsUpTo(Ids \X (0..(Len(Packages) - 1)), MaxPartials)}

ProtectedLists == {<<>>, <<"X">>, <<"Y">>, <<"X", "Y">>}

InitDedup ==
    /\ pc = "start"
    /\ partials \in DedupInputs
    /\ protectedIds \in ProtectedLists
    /\ result = NoResult
    /\ NoRun

Deduplicate ==
    /\ pc = "start"
    /\ result' = deduplicatePartials(partials, protectedIds)
    /\ pc' = "done"
    /\ UNCHANGED <<partials, protectedIds, runVars>>

NextDedup == Deduplicate

SpecDedup == InitDedup /\ [][NextDedup]_vars

(***************************************************************************)
(* Claims about the positional deduplicatePartials                         *)
(***************************************************************************)
CandidateRefs(id) == {i \in 1..Len(partials) : partials[i].id = id}

Survivors(id) == {k \in 1..Len(result.partials) : result.partials[k].id = id}

ConflictsOf(id) ==
    {k \in 1..Len(result.conflicts) : result.conflicts[k].partialId = id}

WarningsOf(id) ==
    {k \in 1..Len(result.protectedWarnings) :
        result.protectedWarnings[k].id = id}

Contested(id) == Cardinality(CandidateRefs(id)) >= 2

\* the conflict record of id names the survivor as winner and exactly the
\* other candidates as overridden
RecordsDiscarded(id, reason) ==
    /\ Cardinality(ConflictsOf(id)) = 1
    /\ \A k \in ConflictsOf(id) :
         LET c == result.conflicts[k]
         IN  /\ c.reason = reason
             /\ \A s \in Survivors(id) : c.winner = result.partials[s]
             /\ Len(c.overridden) = Cardinality(CandidateRefs(id)) - 1
             /\ Range(c.overridden) =
                  {partials[i] : i \in CandidateRefs(id)} \ {c.winner}

\* C1: when two or more non-protected partials share an identifier,
\* deduplicatePartials keeps exactly one of them, the one with the highest
\* sourceIndex, and records every other candidate as overridden in one
\* conflict entry with reason 'last-wins'.
C1_LastWins ==
    pc = "done" =>
      \A id \in Ids :
        (Contested(id) /\ id \notin Range(protectedIds)) =>
          /\ Cardinality(Survivors(id)) = 1
          /\ \A s \in Survivors(id) :
               /\ result.partials[s] \in Range(partials)
               /\ \A i \in CandidateRefs(id) :
                    result.partials[s].sourceIndex >= partials[i].sourceIndex
          /\ RecordsDiscarded(id, "last-wins")

\* C1 witness: a non-protected identifier had candidates of different
\* declaration indexes, the earlier-declared one listed last, and the call
\* returned.
C1_Witness ==
    /\ pc = "done"
    /\ \E id \in Ids :
         /\ id \notin Range(protectedIds)
         /\ \E i, j \in CandidateRefs(id) :
              i < j /\ partials[i].sourceIndex > partials[j].sourceIndex
         /\ Cardinality(CandidateRefs(id)) = 3

\* C2: when a protected identifier has two or more candidates, the survivor
\* is the candidate with the lowest sourceIndex whatever the order of the
\* input list, every other candidate is discarded, and exactly one warning
\* names the packages of all discarded candidates.
C2_ProtectedEarliestWins ==
    pc = "done" =>
      \A id \in Ids :
        (Contested(id) /\ id \in Range(protectedIds)) =>
          /\ Cardinality(Survivors(id)) = 1
          /\ \A s \in Survivors(id) :
               \A i \in CandidateRefs(id) :
                 result.partials[s].sourceIndex <= partials[i].sourceIndex
          /\ RecordsDiscarded(id, "protected")
          /\ Cardinality(WarningsOf(id)) = 1
          /\ \A w \in WarningsOf(id) : \A s \in Survivors(id) :
               Range(result.protectedWarnings[w].overriddenPackages) =
                 {partials[i].packageName :
                    i \in CandidateRefs(id) \ {result.partials[s].ref}}

\* C14: the list returned by deduplicatePartials holds exactly one partial
\* for each identifier of the input, taken from the input, and nothing
\* else; an identifier has a conflict record exactly when the input held
\* more than one candidate for it.
C14_OneSurvivorPerId ==
    pc = "done" =>
        /\ \A id \in Ids :
                /\ Cardinality(Survivors(id))
                       = (IF CandidateRefs(id) = {} THEN 0 ELSE 1)
                /\ (ConflictsOf(id) # {}) <=> Contested(id)
                /\ Cardinality(ConflictsOf(id)) <= 1
        /\ \A k \in 1..Len(result.partials) :
                result.partials[k] \in Range(partials)
        /\ \A k \in 1..Len(result.conflicts) :
                CandidateRefs(result.conflicts[k].partialId) # {}

C14_Witness ==
    /\ pc = "done"
    /\ Cardinality(CandidateRefs("X")) = 2
    /\ Cardinality(CandidateRefs("Y")) = 1
    /\ Len(result.partials) = 2
    /\ Len(result.conflicts) = 1

(***************************************************************************)
(* Priority-tier model (v1): packages/compose-engine/src/utils.ts and      *)
(* packages/core-schemas/src/utils.ts                                      *)
(***************************************************************************)
Layers == {"core", "domain", "stack", "team"}

Weights == {10, 20}

TierPackages == {"P1", "P2"}

TierPartial(ref, id, pkg, layer, weight, prot) ==
    [ref |-> ref, id |-> id, packageName |-> pkg, layer |-> layer,
     weight |-> weight, protected |-> prot]

getLayerPriority(layer) ==
    CASE layer = "core" -> 0
      [] layer = "domain" -> 1
      [] layer = "stack" -> 2
      [] layer = "team" -> 3

\* position of a name in lexicographic order
NameRank(name) ==
    CASE name = "A" -> 1
      [] name = "B" -> 2
      [] name = "C" -> 3
      [] name = "P1" -> 4
      [] name = "P2" -> 5
      [] name = "P3" -> 6
      [] name = "X" -> 7
      [] name = "Y" -> 8
      [] name = "Z" -> 9

\* String.prototype.localeCompare
localeCompare(a, b) ==
    IF NameRank(a) < NameRank(b) THEN -1
    ELSE IF NameRank(a) > NameRank(b) THEN 1 ELSE 0

\* negative if b wins, positive if a wins
comparePartials(a, b) ==
    IF a.protected /\ ~b.protected THEN 1
    ELSE IF ~a.protected /\ b.protected THEN -1
    ELSE IF getLayerPriority(a.layer) # getLayerPriority(b.layer)
    THEN getLayerPriority(b.layer) - getLayerPriority(a.layer)
    ELSE IF a.weight # b.weight THEN b.weight - a.weight
    ELSE localeCompare(b.packageName, a.packageName)

ConflictReason(comparison) ==
    IF comparison = -1 THEN "protected"
    ELSE IF comparison = -2 THEN "layer-priority" ELSE "weight"

RECURSIVE ResolveLoop(_, _, _, _)
ResolveLoop(candidates, i, winner, reason) ==
    IF i > Len(candidates) THEN [winner |-> winner, reason |-> reason]
    ELSE LET comparison == comparePartials(winner, candidates[i])
         IN  IF comparison < 0
             THEN ResolveLoop(candidates, i + 1, candidates[i],
                              ConflictReason(comparison))
             ELSE ResolveLoop(candidates, i + 1, winner, reason)

resolvePartialConflict(candidates) ==
    LET r == ResolveLoop(candidates, 2, candidates[1], "explicit")
    IN  [winner |-> r.winner,
         losers |-> SelectSeq(candidates, LAMBDA p : p.ref # r.winner.ref),
         reason |-> r.reason]

\* identifiers in the order of their first occurrence (Map insertion order)
RECURSIVE FirstOccurrences(_, _, _)
FirstOccurrences(ps, i, seen) ==
    IF i > Len(ps) THEN <<>>
    ELSE IF ps[i].id \in seen THEN FirstOccurrences(ps, i + 1, seen)
    ELSE <<ps[i].id>> \o FirstOccurrences(ps, i + 1, seen \cup {ps[i].id})

RECURSIVE TierDedupLoop(_, _, _, _)
TierDedupLoop(ps, ids, k, acc) ==
    IF k > Len(ids) THEN acc
    ELSE LET candidates == Candidates(ps, ids[k])
         IN  IF Len(candidates) = 1
             THEN TierDedupLoop(ps, ids, k + 1,
                    [acc EXCEPT !.partials = Append(@, candidates[1])])
             ELSE TierDedupLoop(ps, ids, k + 1,
                    [acc EXCEPT
                       !.partials =
                           Append(@, resolvePartialConflict(candidates).winner),
                       !.conflicts =
                           Append(@, resolvePartialConflict(candidates))])

deduplicatePartialsByTier(ps) ==
    LET r == TierDedupLoop(ps, FirstOccurrences(ps, 1, {}), 1,
                 [partials |-> <<>>, conflicts |-> <<>>])
    IN  [kind |-> "tier-dedup", partials |-> r.partials,
         conflicts |-> r.conflicts]

(***************************************************************************)
(* SpecTier: a caller hands a list to the priority-tier deduplicatePartials *)
(***************************************************************************)
TierChoices == Ids \X TierPackages \X Layers \X Weights \X BOOLEAN

TierInputs ==
    {[i \in 1..Len(c) |->
        TierPartial(i, c[i][1], c[i][2], c[i][3], c[i][4], c[i][5])] :
        c \in SeqsUpTo(TierChoices, MaxTierPartials)}

InitTier ==
    /\ pc = "start"
    /\ partials \in TierInputs
    /\ protectedIds = <<>>
    /\ result = NoResult
    /\ NoRun

DeduplicateByTier ==
    /\ pc = "start"
    /\ result' = deduplicatePartialsByTier(partials)
    /\ pc' = "done"
    /\ UNCHANGED <<partials, protectedIds, runVars>>

NextTier == DeduplicateByTier

SpecTier == InitTier /\ [][NextTier]_vars

\* C10: among the candidates sharing an identifier, the winner of the
\* priority-tier deduplicatePartials is a protected candidate if one exists;
\* otherwise it is of the highest tier present (team > stack > domain >
\* core), has the highest weight within that tier, and the lexicographically
\* latest package name among those of that tier and weight.
C10_TierPrecedence ==
    pc = "done" =>
      \A id \in Ids : Contested(id) =>
        \A s \in Survivors(id) :
          LET w == result.partials[s]
              cands == {partials[i] : i \in CandidateRefs(id)}
          IN  IF \E c \in cands : c.protected
              THEN w.protected
              ELSE \A c \in cands :
                     \/ getLayerPriority(w.layer) > getLayerPriority(c.layer)
                     \/ /\ w.layer = c.layer
                        /\ \/ w.weight > c.weight
                           \/ /\ w.weight = c.weight
                              /\ NameRank(w.packageName) >= NameRank(c.packageName)

(***************************************************************************)
(* Dependency resolution: compose/resolver.ts and                          *)
(* detectCircularDependencies of core-schemas                              *)
(***************************************************************************)
DepIds == {"A", "B", "C"}

DepPartial(ref, id, deps) == [ref |-> ref, id |-> id, dependsOn |-> deps]

\* index of the last partial of ps carrying id (Map.set overwrites)
LastIndexOf(ps, id) ==
    CHOOSE i \in 1..Len(ps) :
        ps[i].id = id /\ \A j \in (i + 1)..Len(ps) : ps[j].id # id

IdsOf(ps) == {ps[i].id : i \in 1..Len(ps)}

\* dependencyGraph / graph: id -> dependsOn
DependencyGraph(ps) ==
    [id \in IdsOf(ps) |-> ps[LastIndexOf(ps, id)].dependsOn]

\* graph.get(node) || []
GraphGet(graph, node) == IF node \in DOMAIN graph THEN graph[node] ELSE <<>>

\* Array.prototype.indexOf: 0-based position of the first occurrence, or -1
IndexOf(path, node) ==
    IF \E i \in 1..Len(path) : path[i] = node
    THEN (CHOOSE i \in 1..Len(path) :
            path[i] = node /\ \A j \in 1..(i - 1) : path[j] # node) - 1
    ELSE -1

\* Array.prototype.slice(start): a negative start counts from the end
SliceFrom(path, start) ==
    LET from == IF start < 0
                THEN (IF Len(path) + start < 0 THEN 0 ELSE Len(path) + start)
                ELSE start
    IN  SubSeq(path, from + 1, Len(path))

RECURSIVE DetectVisit(_, _, _, _)
RECURSIVE DetectVisitNoDelete(_, _, _, _)
RECURSIVE DetectDeps(_, _, _, _, _)
RECURSIVE TopoVisit(_, _, _, _)
RECURSIVE TopoVisitPreOrder(_, _, _, _)
RECURSIVE TopoDeps(_, _, _, _, _)

DetectDeps(graph, deps, k, path, st) ==
    IF k > Len(deps) THEN st
    ELSE DetectDeps(graph, deps, k + 1, path,
                    DetectVisit(graph, deps[k], path, st))

DetectVisitNoDelete(graph, node, path, st) ==
    IF node \in st.visiting
    THEN [st EXCEPT !.cycles =
            Append(@, SliceFrom(path, IndexOf(path, node)) \o <<node>>)]
    ELSE IF node \in st.visited THEN st
    ELSE LET entered == [st EXCEPT !.visiting = @ \cup {node}]
             after == DetectDeps(graph, GraphGet(graph, node), 1,
                                 path \o <<node>>, entered)
         IN  [after EXCEPT !.visited = @ \cup {node}]

DetectVisit(graph, node, path, st) ==
    IF node \in st.visiting
    THEN [st EXCEPT !.cycles =
            Append(@, SliceFrom(path, IndexOf(path, node)) \o <<node>>)]
    ELSE IF node \in st.visited THEN st
    ELSE LET entered == [st EXCEPT !.visiting = @ \cup {node}]
             after == DetectDeps(graph, GraphGet(graph, node), 1,
                                 path \o <<node>>, entered)
         IN  [after EXCEPT !.visiting = @ \ {node},
                           !.visited = @ \cup {node}]

RECURSIVE DetectAll(_, _, _, _)
DetectAll(graph, ps, i, st) ==
    IF i > Len(ps) THEN st
    ELSE IF ps[i].id \in st.visited THEN DetectAll(graph, ps, i + 1, st)
    ELSE DetectAll(graph, ps, i + 1, DetectVisit(graph, ps[i].id, <<>>, st))

detectCircularDependencies(ps) ==
    DetectAll(DependencyGraph(ps), ps, 1,
              [visited |-> {}, visiting |-> {}, cycles |-> <<>>]).cycles

TopoDeps(graph, ps, deps, k, st) ==
    IF k > Len(deps) THEN st
    ELSE IF deps[k] \in IdsOf(ps)
    THEN TopoDeps(graph, ps, deps, k + 1, TopoVisit(graph, ps, deps[k], st))
    ELSE TopoDeps(graph, ps, deps, k + 1, st)

TopoVisitPreOrder(graph, ps, partialId, st) ==
    IF partialId \in st.visiting THEN st
    ELSE IF partialId \in st.visited THEN st
    ELSE LET entered == [st EXCEPT
                           !.visiting = @ \cup {partialId},
                           !.result =
                               IF partialId \in IdsOf(ps)
                               THEN Append(@, ps[LastIndexOf(ps, partialId)])
                               ELSE @]
             after == TopoDeps(graph, ps, GraphGet(graph, partialId), 1, entered)
         IN  [after EXCEPT !.visiting = @ \ {partialId},
                           !.visited = @ \cup {partialId}]

TopoVisit(graph, ps, partialId, st) ==
    IF partialId \in st.visiting THEN st
    ELSE IF partialId \in st.visited THEN st
    ELSE LET entered == [st EXCEPT !.visiting = @ \cup {partialId}]
             after == TopoDeps(graph, ps, GraphGet(graph, partialId), 1, entered)
         IN  [after EXCEPT
                !.visiting = @ \ {partialId},
                !.visited = @ \cup {partialId},
                !.result =
                    IF partialId \in IdsOf(ps)
                    THEN Append(@, ps[LastIndexOf(ps, partialId)])
                    ELSE @]

RECURSIVE TopoAll(_, _, _, _)
TopoAll(graph, ps, i, st) ==
    IF i > Len(ps) THEN st
    ELSE IF ps[i].id \in st.visited THEN TopoAll(graph, ps, i + 1, st)
    ELSE TopoAll(graph, ps, i + 1, TopoVisit(graph, ps, ps[i].id, st))

\* the sort leaving out the partials that are on a cycle
topologicalSortWithoutCycles(ps, graph) ==
    LET cycles == detectCircularDependencies(ps)
        onCycle(id) == \E k \in 1..Len(cycles) : id \in Range(cycles[k])
    IN  SelectSeq(TopoAll(graph, ps, 1,
                      [visited |-> {}, visiting |-> {}, result |-> <<>>]).result,
                  LAMBDA p : ~onCycle(p.id))

topologicalSort(ps, graph) ==
    TopoAll(graph, ps, 1,
            [visited |-> {}, visiting |-> {}, result |-> <<>>]).result

\* the filter with its test inverted
MissingDepsInverted(ps, i) ==
    SelectSeq(ps[i].dependsOn, LAMBDA dep : dep \in IdsOf(ps))

MissingDeps(ps, i) ==
    SelectSeq(ps[i].dependsOn, LAMBDA dep : dep \notin IdsOf(ps))

RECURSIVE MissingLoop(_, _)
MissingLoop(ps, i) ==
    IF i > Len(ps) THEN <<>>
    ELSE IF Len(MissingDeps(ps, i)) > 0
    THEN <<[partialId |-> ps[i].id, missingDeps |-> MissingDeps(ps, i)]>>
         \o MissingLoop(ps, i + 1)
    ELSE MissingLoop(ps, i + 1)

resolveDependencies(ps) ==
    [kind |-> "deps",
     resolved |-> topologicalSort(ps, DependencyGraph(ps)),
     circular |-> detectCircularDependencies(ps),
     missing |-> MissingLoop(ps, 1)]

(***************************************************************************)
(* SpecDeps: a caller hands a list with unique identifiers to              *)
(* resolveDependencies                                                     *)
(***************************************************************************)
\* sequences over S without repetition, of length 0..n
DistinctSeqs(S, n) ==
    {q \in SeqsUpTo(S, n) : \A i, j \in 1..Len(q) : i # j => q[i] # q[j]}

DependsOnLists == DistinctSeqs(DepIds, MaxDeps)

DepIdLists == DistinctSeqs(DepIds, Cardinality(DepIds))

InitDeps ==
    /\ pc = "start"
    /\ \E ids \in DepIdLists :
         \E deps \in [1..Len(ids) -> DependsOnLists] :
            partials = [i \in 1..Len(ids) |-> DepPartial(i, ids[i], deps[i])]
    /\ protectedIds = <<>>
    /\ result = NoResult
    /\ NoRun

ResolveDependencies ==
    /\ pc = "start"
    /\ result' = resolveDependencies(partials)
    /\ pc' = "done"
    /\ UNCHANGED <<partials, protectedIds, runVars>>

NextDeps == ResolveDependencies

SpecDeps == InitDeps /\ [][NextDeps]_vars

(***************************************************************************)
(* Claims about resolveDependencies                                        *)
(***************************************************************************)
UniqueIds == \A i, j \in 1..Len(partials) : i # j => partials[i].id # partials[j].id

\* direct dependencies of id that some partial of the list carries
PresentDeps(id) ==
    {d \in Range(GraphGet(DependencyGraph(partials), id)) : d \in IdsOf(partials)}

RECURSIVE Closure(_)
Closure(S) ==
    LET next == S \cup UNION {PresentDeps(x) : x \in S}
    IN  IF next = S THEN S ELSE Closure(next)

\* everything id depends on, directly or transitively, within the list
TransitiveDeps(id) == Closure(PresentDeps(id))

HasCycle == \E id \in IdsOf(partials) : id \in TransitiveDeps(id)

PositionsOf(id) ==
    {k \in 1..Len(result.resolved) : result.resolved[k].id = id}

\* C4: for a list with unique identifiers and an acyclic dependency graph,
\* every partial stands in the resolved list after every partial of the list
\* it depends on, directly or transitively.
C4_DependenciesFirst ==
    (pc = "done" /\ UniqueIds /\ ~HasCycle) =>
      \A k \in 1..Len(result.resolved) :
        \A d \in TransitiveDeps(result.resolved[k].id) :
          /\ PositionsOf(d) # {}
          /\ \A j \in PositionsOf(d) : j < k

\* C4 witness: an acyclic chain of three partials listed dependents first
\* (c depends on b, b on a) has been resolved.
C4_Witness ==
    /\ pc = "done"
    /\ ~HasCycle
    /\ Len(partials) = 3
    /\ partials[2].id \in Range(partials[1].dependsOn)
    /\ partials[3].id \in Range(partials[2].dependsOn)

\* C24: for a list with unique identifiers, cyclic or with missing
\* dependencies or not, the resolved list is a permutation of the input
\* list: no partial is dropped and none is duplicated.
C24_ResolvedIsPermutation ==
    (pc = "done" /\ UniqueIds) =>
        /\ Len(result.resolved) = Len(partials)
        /\ \A i \in 1..Len(partials) :
                Cardinality({k \in 1..Len(result.resolved) :
                                result.resolved[k] = partials[i]}) = 1

C24_Witness ==
    /\ pc = "done"
    /\ Len(partials) = 3
    /\ partials[1].id = "A" /\ partials[1].dependsOn = <<"B", "C">>
    /\ partials[2].id = "B" /\ partials[2].dependsOn = <<"A">>
    /\ partials[3].id = "C" /\ partials[3].dependsOn = <<"C">>
    /\ Len(result.circular) > 0
    /\ Len(result.resolved) = 3

\* C5: for a list with unique identifiers the returned cycle list is
\* non-empty exactly when the dependency graph among the partials has a
\* cycle.
C5_CyclesIffCyclic ==
    (pc = "done" /\ UniqueIds) => ((Len(result.circular) > 0) <=> HasCycle)

\* C5 witness: the three-partial cycle A -> C -> B -> A has been resolved
\* and reported.
C5_Witness ==
    /\ pc = "done"
    /\ Len(partials) = 3
    /\ partials[1].id = "A" /\ partials[1].dependsOn = <<"C">>
    /\ partials[2].id = "B" /\ partials[2].dependsOn = <<"A">>
    /\ partials[3].id = "C" /\ partials[3].dependsOn = <<"B">>
    /\ Len(result.circular) > 0

(***************************************************************************)
(* Documents.  A document is a sequence of tokens; a token stands for a    *)
(* piece of text that the regular expressions and string searches of the   *)
(* code treat as a unit.  t is the kind of the token, v the identifier or  *)
(* word it carries, k a second word (the package of a section header).     *)
(*   nl       "\n"                                                         *)
(*   sp       " "                                                          *)
(*   txt      the word v                                                   *)
(*   h        "# v", the start of a heading line                           *)
(*   begin    "<!-- BEGIN PROTECTED:v -->"                                 *)
(*   end      "<!-- END PROTECTED -->"                                     *)
(*   ph       "<!-- PROTECTED:v -->"                                       *)
(*   partial  "<!-- BEGIN PARTIAL: v (from k) -->"                         *)
(***************************************************************************)
Tok(t, k, v) == [t |-> t, k |-> k, v |-> v]

NL == Tok("nl", "", "")

SP == Tok("sp", "", "")

Txt(w) == Tok("txt", "", w)

Heading(w) == Tok("h", "", w)

BeginMarker(id) == Tok("begin", "", id)

EndMarker == Tok("end", "", "")

Placeholder(id) == Tok("ph", "", id)

Min(S) == CHOOSE x \in S : \A y \in S : x <= y

\* String.prototype.toLowerCase on the words of the model
toLowerCase(w) ==
    CASE w = "X" -> "x"
      [] w = "Y" -> "y"
      [] OTHER -> w

\* tok.toLowerCase().includes(w) on the text of one token, for the lower-case
\* form w of an identifier: the words of the model are chosen so that an
\* identifier occurs in a token only as the word the token carries
LowerTokenIncludes(tok, w) == toLowerCase(tok.v) = w

\* String.prototype.indexOf for a one-token needle: the position of the
\* first occurrence, 0 when there is none
FirstIndexOfToken(doc, tok) ==
    LET hits == {i \in 1..Len(doc) : doc[i] = tok}
    IN  IF hits = {} THEN 0 ELSE Min(hits)

\* the substitution patterns of String.prototype.replace(string, string):
\* "$$" inserts "$", "$&" the matched text, "$`" the text before the match
\* and "$'" the text after it
RECURSIVE GetSubstitution(_, _, _, _, _)
GetSubstitution(replacement, i, before, matched, after) ==
    IF i > Len(replacement) THEN <<>>
    ELSE LET tok == replacement[i]
             out == CASE tok = Txt("$$") -> <<Txt("$")>>
                      [] tok = Txt("$&") -> matched
                      [] tok = Txt("$`") -> before
                      [] tok = Txt("$'") -> after
                      [] OTHER -> <<tok>>
         IN  out \o GetSubstitution(replacement, i + 1, before, matched, after)

\* doc.replace(needle, replacement) for a one-token needle that occurs in doc
StringReplace(doc, needle, replacement) ==
    LET at == FirstIndexOfToken(doc, needle)
        before == SubSeq(doc, 1, at - 1)
        after == SubSeq(doc, at + 1, Len(doc))
    IN  before \o GetSubstitution(replacement, 1, before, <<needle>>, after)
               \o after

(***************************************************************************)
(* Protected blocks                                                        *)
(***************************************************************************)
ProtectedBlock(id, text) ==
    [id |-> id, content |-> text,
     markers |-> [start |-> BeginMarker(id), end |-> EndMarker]]

\* the matches of /<!-- BEGIN PROTECTED:(id) -->[\s\S]*?<!-- END PROTECTED -->/g
\* from position from on: a begin marker and the nearest end marker after it
RECURSIVE ExtractFrom(_, _)
ExtractFrom(doc, from) ==
    LET begins == {i \in from..Len(doc) : doc[i].t = "begin"}
    IN  IF begins = {} THEN <<>>
        ELSE LET b == Min(begins)
                 ends == {j \in (b + 1)..Len(doc) : doc[j].t = "end"}
             IN  IF ends = {} THEN <<>>
                 ELSE LET e == Min(ends)
                      IN  <<ProtectedBlock(doc[b].v, SubSeq(doc, b, e))>>
                              \o ExtractFrom(doc, e + 1)

extractProtectedBlocks(existingContent) == ExtractFrom(existingContent, 1)

\* the for loop of mergeProtectedBlocks: a block is substituted for its
\* placeholder, and skipped when the document holds no such placeholder
RECURSIVE MergeLoop(_, _, _)
MergeLoop(doc, blocks, i) ==
    IF i > Len(blocks) THEN doc
    ELSE LET block == blocks[i]
             placeholder == Placeholder(block.id)
         IN  IF FirstIndexOfToken(doc, placeholder) > 0
             THEN MergeLoop(StringReplace(doc, placeholder, block.content),
                            blocks, i + 1)
             ELSE MergeLoop(doc, blocks, i + 1)

mergeProtectedBlocks(newContent, protectedBlocks) ==
    MergeLoop(newContent, protectedBlocks, 1)

\* content.split('\n'): the positions at which the lines start, and the
\* position of the last token of the line starting at s (s - 1 when empty)
LineStarts(doc) == {1} \cup {i + 1 : i \in {j \in 1..Len(doc) : doc[j] = NL}}

LineEnd(doc, s) ==
    LET nls == {j \in s..Len(doc) : doc[j] = NL}
    IN  IF nls = {} THEN Len(doc) ELSE Min(nls) - 1

\* the earlier engine's fallback: after the first heading line that contains
\* the identifier (case-insensitively), else at the end of the document
insertProtectedBlock(doc, block) ==
    LET wanted == toLowerCase(block.id)
        headers == {s \in LineStarts(doc) :
                        /\ s <= LineEnd(doc, s)
                        /\ doc[s].t = "h"
                        /\ \E j \in s..LineEnd(doc, s) :
                                LowerTokenIncludes(doc[j], wanted)}
    IN  IF headers # {}
        THEN LET e == LineEnd(doc, Min(headers))
             IN  SubSeq(doc, 1, e) \o <<NL, NL>> \o block.content \o <<NL>>
                     \o SubSeq(doc, e + 1, Len(doc))
        ELSE doc \o <<NL, NL>> \o block.content

RECURSIVE MergeWithFallbackLoop(_, _, _)
MergeWithFallbackLoop(doc, blocks, i) ==
    IF i > Len(blocks) THEN doc
    ELSE LET block == blocks[i]
             placeholder == Placeholder(block.id)
         IN  IF FirstIndexOfToken(doc, placeholder) > 0
             THEN MergeWithFallbackLoop(
                      StringReplace(doc, placeholder, block.content),
                      blocks, i + 1)
             ELSE MergeWithFallbackLoop(insertProtectedBlock(doc, block),
                                        blocks, i + 1)

\* mergeProtectedBlocks of the earlier (priority-tier) engine
mergeProtectedBlocksWithFallback(newContent, protectedBlocks) ==
    MergeWithFallbackLoop(newContent, protectedBlocks, 1)

(***************************************************************************)
(* Reinsertion of the blocks of a prior document into a new one            *)
(***************************************************************************)
\* what a hand-edited block holds between its markers
BlockBodies ==
    {<<Txt("w")>>, <<Txt("$$")>>, <<Placeholder("Y")>>, <<NL, Heading("y")>>}

NewDocTokens == {Placeholder("X"), Heading("x"), Txt("w"), NL}

RECURSIVE PriorDocument(_, _)
PriorDocument(c, i) ==
    IF i > Len(c) THEN <<>>
    ELSE <<BeginMarker(c[i][1])>> \o c[i][2] \o <<EndMarker, NL>>
             \o PriorDocument(c, i + 1)

InitBlocks ==
    /\ pc = "start"
    /\ \E c \in SeqsUpTo(Ids \X BlockBodies, MaxBlocks) :
            existing = PriorDocument(c, 1)
    /\ content \in SeqsUpTo(NewDocTokens, MaxDocLen)
    /\ partials = <<>>
    /\ protectedIds = <<>>
    /\ result = NoResult
    /\ config = NoResult
    /\ options = NoResult
    /\ clock = 0
    /\ previous = NoResult
    /\ parsed = NoResult

ExtractProtectedBlocks ==
    /\ pc = "start"
    /\ result' = [kind |-> "blocks",
                  blocks |-> extractProtectedBlocks(existing)]
    /\ pc' = "extracted"
    /\ UNCHANGED <<partials, protectedIds, config, options, content,
                   existing, clock, previous, parsed>>

MergeProtectedBlocks ==
    /\ pc = "extracted"
    /\ previous' = result
    /\ result' = [kind |-> "merged",
                  content |-> mergeProtectedBlocks(content, result.blocks)]
    /\ pc' = "merged"
    /\ UNCHANGED <<partials, protectedIds, config, options, content,
                   existing, clock, parsed>>

MergeProtectedBlocksWithFallback ==
    /\ pc = "extracted"
    /\ previous' = result
    /\ result' = [kind |-> "merged",
                  content |-> mergeProtectedBlocksWithFallback(
                                  content, result.blocks)]
    /\ pc' = "merged"
    /\ UNCHANGED <<partials, protectedIds, config, options, content,
                   existing, clock, parsed>>

NextBlocks ==
    \/ ExtractProtectedBlocks
    \/ MergeProtectedBlocks
    \/ MergeProtectedBlocksWithFallback

SpecBlocks == InitBlocks /\ [][NextBlocks]_vars

\* text occurs in doc as one contiguous piece
Contains(doc, text) ==
    \E k \in 1..(Len(doc) - Len(text) + 1) :
        SubSeq(doc, k, k + Len(text) - 1) = text

\* text stands in doc at position k
OccursAt(doc, text, k) ==
    /\ k + Len(text) - 1 <= Len(doc)
    /\ SubSeq(doc, k, k + Len(text) - 1) = text

\* where the claim puts a block in the document doc: at its placeholder,
\* else directly after the first heading line naming it, else at the end
PlacedAsClaimed(doc, block, merged) ==
    LET at == FirstIndexOfToken(doc, Placeholder(block.id))
        headers == {s \in LineStarts(doc) :
                        /\ s <= LineEnd(doc, s)
                        /\ doc[s].t = "h"
                        /\ toLowerCase(doc[s].v) = toLowerCase(block.id)}
    IN  IF at > 0
        THEN merged = SubSeq(doc, 1, at - 1) \o block.content
                          \o SubSeq(doc, at + 1, Len(doc))
        ELSE IF headers # {}
        THEN LET e == LineEnd(doc, Min(headers))
             IN  /\ SubSeq(merged, 1, e) = SubSeq(doc, 1, e)
                 /\ \E k \in (e + 1)..Len(merged) :
                        /\ \A j \in (e + 1)..(k - 1) : merged[j] = NL
                        /\ OccursAt(merged, block.content, k)
        ELSE /\ Len(merged) >= Len(block.content)
             /\ OccursAt(merged, block.content,
                         Len(merged) - Len(block.content) + 1)

\* C9: the document returned by mergeProtectedBlocks contains the verbatim
\* text of every block of the list it was given; a single block stands at
\* its placeholder when the new document has one, else directly after the
\* first heading naming its identifier, else at the end of the document.
C9_NoProtectedContentDropped ==
    pc = "merged" =>
        /\ \A i \in 1..Len(previous.blocks) :
                Contains(result.content, previous.blocks[i].content)
        /\ Len(previous.blocks) = 1 =>
                PlacedAsClaimed(content, previous.blocks[1], result.content)

(***************************************************************************)
(* Composition (positional model)                                          *)
(***************************************************************************)
\* an optional array: undefined, or an array (which JavaScript takes as
\* true whatever it holds)
Undefined == [present |-> FALSE, list |-> <<>>]

Defined(list) == [present |-> TRUE, list |-> list]

\* a || b || [] on optional arrays
OrElse(a, b) == IF a.present THEN a.list ELSE IF b.present THEN b.list ELSE <<>>

Providers == {"cursor", "copilot"}

ComposePartial(ref, id, srcIdx, version, providers, body) ==
    [ref |-> ref, id |-> id, packageName |-> Packages[srcIdx + 1],
     packageVersion |-> version, sourceIndex |-> srcIdx,
     providers |-> providers, content |-> body]

\* the function without its test for an empty array
shouldIncludePartialForProviderStrict(partial, provider) ==
    IF ~partial.providers.present
    THEN TRUE
    ELSE provider \in Range(partial.providers.list)

shouldIncludePartialForProvider(partial, provider) ==
    IF ~partial.providers.present \/ Len(partial.providers.list) = 0
    THEN TRUE
    ELSE provider \in Range(partial.providers.list)

BySourceIndex(s) == [i \in 1..Len(s) |-> s[i].sourceIndex]

\* the sort taking equal indices in the reverse of their input order
sortPartialsBySourceIndexReversingTies(ps) ==
    LET reversed == [i \in 1..Len(ps) |-> ps[Len(ps) + 1 - i]]
    IN  StableSortByKey(reversed, BySourceIndex(reversed))

sortPartialsBySourceIndex(ps) == StableSortByKey(ps, BySourceIndex(ps))

IsWhitespace(tok) == tok.t \in {"nl", "sp"}

\* content.trim() is not the empty string
TrimIsNonEmpty(text) == \E i \in 1..Len(text) : ~IsWhitespace(text[i])

\* the end of the run of whitespace that starts at position i
RECURSIVE WhitespaceRunEnd(_, _)
WhitespaceRunEnd(text, i) ==
    IF i < Len(text) /\ IsWhitespace(text[i + 1])
    THEN WhitespaceRunEnd(text, i + 1)
    ELSE i

\* the replacement with lazy quantifiers, /\n\s*?\n\s*?\n/g: a match ends at
\* the third newline of the stretch
RECURSIVE RemoveEmptyLinesLazy(_, _)
RemoveEmptyLinesLazy(text, i) ==
    IF i > Len(text) THEN <<>>
    ELSE IF text[i] # NL
    THEN <<text[i]>> \o RemoveEmptyLinesLazy(text, i + 1)
    ELSE LET nls == {j \in i..WhitespaceRunEnd(text, i) : text[j] = NL}
             third == CHOOSE j \in nls :
                        Cardinality({m \in nls : m <= j}) = 3
         IN  IF Cardinality(nls) >= 3
             THEN <<NL, NL>> \o RemoveEmptyLinesLazy(text, third + 1)
             ELSE <<NL>> \o RemoveEmptyLinesLazy(text, i + 1)

\* content.replace(/\n\s*\n\s*\n/g, '\n\n'): a match starts at a newline and
\* runs to the last newline of the whitespace around it, provided that
\* stretch holds three newlines or more
RECURSIVE RemoveEmptyLines(_, _)
RemoveEmptyLines(text, i) ==
    IF i > Len(text) THEN <<>>
    ELSE IF text[i] # NL THEN <<text[i]>> \o RemoveEmptyLines(text, i + 1)
    ELSE LET nls == {j \in i..WhitespaceRunEnd(text, i) : text[j] = NL}
             last == CHOOSE j \in nls : \A m \in nls : m <= j
         IN  IF Cardinality(nls) >= 3
             THEN <<NL, NL>> \o RemoveEmptyLines(text, last + 1)
             ELSE <<NL>> \o RemoveEmptyLines(text, i + 1)

\* the transformers a composer is constructed with, in priority order
DefaultTransformers == <<"remove-empty-lines">>

\* transformer.transform(content, context): the default transformer, and
\* two transformers of a caller: one deletes the word "a", one appends it
Transform(name, text) ==
    CASE name = "remove-empty-lines" -> RemoveEmptyLines(text, 1)
      [] name = "redact" -> SelectSeq(text, LAMBDA tok : tok # Txt("a"))
      [] name = "append-a" -> Append(text, Txt("a"))
      [] OTHER -> text

RECURSIVE ApplyTransformers(_, _, _)
ApplyTransformers(transformers, text, i) ==
    IF i > Len(transformers) THEN text
    ELSE ApplyTransformers(transformers, Transform(transformers[i], text),
                           i + 1)

createSectionHeader(partial) == Tok("partial", partial.packageName, partial.id)

RECURSIVE MergeSections(_, _, _)
MergeSections(ps, transformers, i) ==
    IF i > Len(ps) THEN <<>>
    ELSE LET text == ApplyTransformers(transformers, ps[i].content, 1)
             rest == MergeSections(ps, transformers, i + 1)
         IN  IF TrimIsNonEmpty(text)
             THEN <<(<<createSectionHeader(ps[i]), NL>> \o text)>> \o rest
             ELSE rest

\* sections.join(separator)
RECURSIVE Join(_, _, _)
Join(sections, separator, i) ==
    IF i > Len(sections) THEN <<>>
    ELSE IF i = Len(sections) THEN sections[i]
    ELSE sections[i] \o separator \o Join(sections, separator, i + 1)

mergePartials(ps, transformers) ==
    Join(MergeSections(ps, transformers, 1), <<NL, NL>>, 1)

(***************************************************************************)
(* Metadata                                                                *)
(***************************************************************************)
\* the code that stands for a token in the content hash (the code hashes
\* character by character; the model hashes token by token)
WordCode(w) ==
    CASE w = "a" -> 97 [] w = "b" -> 98 [] w = "c" -> 99 [] w = "w" -> 119
      [] w = "x" -> 120 [] w = "y" -> 121 [] w = "X" -> 88 [] w = "Y" -> 89
      [] w = "P1" -> 177 [] w = "P2" -> 178 [] w = "P3" -> 179
      [] w = "$" -> 36 [] w = "$$" -> 72 [] w = "" -> 0
      [] w = "01T00:00:00.000Z" -> 48 [] w = "01T00:00:00.001Z" -> 49
      [] w = "01T00:00:00.002Z" -> 50
      [] OTHER -> 63

TokenCode(tok) ==
    CASE tok.t = "nl" -> 10
      [] tok.t = "sp" -> 32
      [] tok.t = "txt" -> WordCode(tok.v)
      [] tok.t = "h" -> 35 + WordCode(tok.v)
      [] tok.t = "begin" -> 1000 + WordCode(tok.v)
      [] tok.t = "end" -> 2000
      [] tok.t = "ph" -> 3000 + WordCode(tok.v)
      [] tok.t = "partial" -> 4000 + 256 * WordCode(tok.k) + WordCode(tok.v)
      [] OTHER -> 63

\* hash = (hash << 5) - hash + char; hash = hash & hash: 31 * hash + char
\* in 32 bits.  A 32-bit value is the pair of its halves <<high, low>>.
HashStep(hash, char) ==
    LET low == 31 * hash[2] + char
    IN  <<(31 * hash[1] + (low \div 65536)) % 65536, low % 65536>>

RECURSIVE HashLoop(_, _, _)
HashLoop(text, i, hash) ==
    IF i > Len(text) THEN hash
    ELSE HashLoop(text, i + 1, HashStep(hash, TokenCode(text[i])))

\* Math.abs of the signed 32-bit value
MathAbs(hash) ==
    IF hash[1] < 32768 THEN hash
    ELSE <<(65535 - hash[1] + (IF hash[2] = 0 THEN 1 ELSE 0)) % 65536,
           (65536 - hash[2]) % 65536>>

HexDigits ==
    <<"0", "1", "2", "3", "4", "5", "6", "7",
      "8", "9", "a", "b", "c", "d", "e", "f">>

Hex4(n) ==
    <<HexDigits[(n \div 4096) + 1], HexDigits[((n \div 256) % 16) + 1],
      HexDigits[((n \div 16) % 16) + 1], HexDigits[(n % 16) + 1]>>

RECURSIVE StripLeadingZeros(_)
StripLeadingZeros(digits) ==
    IF Len(digits) > 1 /\ Head(digits) = "0"
    THEN StripLeadingZeros(Tail(digits))
    ELSE digits

\* Number.prototype.toString(16): the hexadecimal digits
toString16(value) == StripLeadingZeros(Hex4(value[1]) \o Hex4(value[2]))

createContentHash(text) == toString16(MathAbs(HashLoop(text, 1, <<0, 0>>)))

Dash == Txt("-")

\* new Date().toISOString() at the clock reading c
toISOString(c) ==
    <<Txt("2024"), Dash, Txt("01"), Dash,
      Txt(CASE c = 0 -> "01T00:00:00.000Z"
            [] c = 1 -> "01T00:00:00.001Z"
            [] OTHER -> "01T00:00:00.002Z")>>

\* the reduce of compose: acc[packageName] = packageVersion, an object
\* whose keys keep the order of their first assignment
RECURSIVE PackagesOf(_, _, _)
PackagesOf(ps, i, acc) ==
    IF i > Len(ps) THEN acc
    ELSE LET name == ps[i].packageName
             entry == [name |-> name, version |-> ps[i].packageVersion]
             at == {k \in 1..Len(acc) : acc[k].name = name}
         IN  PackagesOf(ps, i + 1,
                 IF at = {} THEN Append(acc, entry)
                 ELSE [acc EXCEPT ![CHOOSE k \in at : TRUE] = entry])

createCompositionMetadataHashingTime(packages, ps, protectedPartials, text, now) ==
    [packages |-> packages,
     contentHash |-> createContentHash(text \o toISOString(now)),
     generatedAt |-> toISOString(now),
     partials |-> [i \in 1..Len(ps) |->
                      [id |-> ps[i].id, packageName |-> ps[i].packageName]],
     protectedPartials |-> protectedPartials]

createCompositionMetadata(packages, ps, protectedPartials, text, now) ==
    [packages |-> packages,
     contentHash |-> createContentHash(text),
     generatedAt |-> toISOString(now),
     partials |-> [i \in 1..Len(ps) |->
                      [id |-> ps[i].id, packageName |-> ps[i].packageName]],
     protectedPartials |-> protectedPartials]

(***************************************************************************)
(* JSON.  A value is a tree: an object with its members in order, an array *)
(* or a string (the text between the quotes).  The text of a value is made *)
(* of the tokens "{", "}", "[", "]", ",", ":" and the quote, of kind json. *)
(***************************************************************************)
Json(c) == Tok("json", "", c)

JsonString(text) == [j |-> "string", text |-> text]

JsonArray(items) == [j |-> "array", items |-> items]

JsonObject(members) == [j |-> "object", members |-> members]

\* a member of an object; its key is the text between the quotes
Member(word, value) == [key |-> <<Txt(word)>>, value |-> value]

\* the value JSON.stringify serialises for a metadata record
MetadataValue(m) ==
    JsonObject(<<
        Member("packages", JsonObject(
            [i \in 1..Len(m.packages) |->
                Member(m.packages[i].name,
                       JsonString(<<Txt(m.packages[i].version)>>))])),
        Member("contentHash", JsonString(
            [i \in 1..Len(m.contentHash) |-> Txt(m.contentHash[i])])),
        Member("generatedAt", JsonString(m.generatedAt)),
        Member("partials", JsonArray(
            [i \in 1..Len(m.partials) |->
                JsonObject(<<
                    Member("id", JsonString(<<Txt(m.partials[i].id)>>)),
                    Member("packageName",
                           JsonString(<<Txt(m.partials[i].packageName)>>))>>)])),
        Member("protectedPartials", JsonArray(
            [i \in 1..Len(m.protectedPartials) |->
                JsonString(<<Txt(m.protectedPartials[i])>>)]))>>)

RECURSIVE Stringify(_)
RECURSIVE StringifyMembers(_, _)
RECURSIVE StringifyItems(_, _)

\* JSON.stringify(value, null, 2), with a line break where it indents
Stringify(value) ==
    CASE value.j = "string" -> <<Json("quote")>> \o value.text \o <<Json("quote")>>
      [] value.j = "literal" -> <<Tok("lit", "", value.text)>>
      [] value.j = "array" ->
            IF Len(value.items) = 0 THEN <<Json("["), Json("]")>>
            ELSE <<Json("["), NL>> \o StringifyItems(value.items, 1)
                     \o <<NL, Json("]")>>
      [] value.j = "object" ->
            IF Len(value.members) = 0 THEN <<Json("{"), Json("}")>>
            ELSE <<Json("{"), NL>> \o StringifyMembers(value.members, 1)
                     \o <<NL, Json("}")>>

StringifyMembers(members, i) ==
    LET one == <<Json("quote")>> \o members[i].key
                   \o <<Json("quote"), Json(":"), SP>>
                   \o Stringify(members[i].value)
    IN  IF i = Len(members) THEN one
        ELSE one \o <<Json(","), NL>> \o StringifyMembers(members, i + 1)

StringifyItems(items, i) ==
    IF i = Len(items) THEN Stringify(items[i])
    ELSE Stringify(items[i]) \o <<Json(","), NL>>
             \o StringifyItems(items, i + 1)

ParseFailed == [ok |-> FALSE, value |-> JsonString(<<>>), next |-> 0]

ParseOk(value, next) == [ok |-> TRUE, value |-> value, next |-> next]

RECURSIVE SkipWhitespace(_, _)
SkipWhitespace(text, i) ==
    IF i <= Len(text) /\ IsWhitespace(text[i])
    THEN SkipWhitespace(text, i + 1)
    ELSE i

\* obj[key] = value on an object under construction: a key seen before
\* keeps its place and takes the new value
SetMember(members, key, value) ==
    LET at == {k \in 1..Len(members) : members[k].key = key}
        entry == [key |-> key, value |-> value]
    IN  IF at = {} THEN Append(members, entry)
        ELSE [members EXCEPT ![CHOOSE k \in at : TRUE] = entry]

RECURSIVE ParseValue(_, _)
RECURSIVE ParseItems(_, _, _, _)
RECURSIVE ParseMembers(_, _, _, _)

ParseValue(text, from) ==
    LET i == SkipWhitespace(text, from)
    IN  IF i > Len(text) THEN ParseFailed
        ELSE CASE text[i] = Json("quote") ->
                    LET closing == {j \in (i + 1)..Len(text) :
                                        text[j] = Json("quote")}
                    IN  IF closing = {} THEN ParseFailed
                        ELSE ParseOk(JsonString(SubSeq(text, i + 1,
                                                       Min(closing) - 1)),
                                     Min(closing) + 1)
               [] text[i] = Json("[") -> ParseItems(text, i + 1, <<>>, TRUE)
               [] text[i] = Json("{") -> ParseMembers(text, i + 1, <<>>, TRUE)
               [] OTHER -> ParseFailed

ParseItems(text, from, acc, first) ==
    LET i == SkipWhitespace(text, from)
    IN  IF i > Len(text) THEN ParseFailed
        ELSE IF first /\ text[i] = Json("]") THEN ParseOk(JsonArray(acc), i + 1)
        ELSE LET item == ParseValue(text, i)
                 k == SkipWhitespace(text, item.next)
             IN  IF ~item.ok \/ k > Len(text) THEN ParseFailed
                 ELSE IF text[k] = Json(",")
                 THEN ParseItems(text, k + 1, Append(acc, item.value), FALSE)
                 ELSE IF text[k] = Json("]")
                 THEN ParseOk(JsonArray(Append(acc, item.value)), k + 1)
                 ELSE ParseFailed

ParseMembers(text, from, acc, first) ==
    LET i == SkipWhitespace(text, from)
    IN  IF i > Len(text) THEN ParseFailed
        ELSE IF first /\ text[i] = Json("}") THEN ParseOk(JsonObject(acc), i + 1)
        ELSE LET key == ParseValue(text, i)
                 c == SkipWhitespace(text, key.next)
             IN  IF ~key.ok \/ key.value.j # "string" \/ c > Len(text)
                 THEN ParseFailed
                 ELSE IF text[c] # Json(":") THEN ParseFailed
                 ELSE LET item == ParseValue(text, c + 1)
                          k == SkipWhitespace(text, item.next)
                          members == SetMember(acc, key.value.text, item.value)
                      IN  IF ~item.ok \/ k > Len(text) THEN ParseFailed
                          ELSE IF text[k] = Json(",")
                          THEN ParseMembers(text, k + 1, members, FALSE)
                          ELSE IF text[k] = Json("}")
                          THEN ParseOk(JsonObject(members), k + 1)
                          ELSE ParseFailed

\* JSON.parse: one value and nothing but whitespace after it; ok is FALSE
\* where JSON.parse throws
JsonParse(text) ==
    LET top == ParseValue(text, 1)
    IN  IF top.ok /\ SkipWhitespace(text, top.next) > Len(text)
        THEN top ELSE ParseFailed

(***************************************************************************)
(* The metadata header.  Further tokens:                                   *)
(*   open   "<!--"            close  "-->"                                 *)
(*   label  "AI-POLICIES-META:"                                            *)
(*   b64    the base64 text of the token of kind k and word v              *)
(***************************************************************************)
CommentOpen == Tok("open", "", "")

CommentClose == Tok("close", "", "")

MetaLabel == Tok("label", "", "")

\* Buffer.from(text).toString('base64')
Base64Encode(text) == [i \in 1..Len(text) |-> Tok("b64", text[i].t, text[i].v)]

\* Buffer.from(data, 'base64').toString('utf8'): whitespace is skipped, and
\* text that was not produced by the encoder decodes to bytes of no meaning
RECURSIVE Base64Decode(_, _)
Base64Decode(data, i) ==
    IF i > Len(data) THEN <<>>
    ELSE LET tok == data[i]
             out == IF IsWhitespace(tok) THEN <<>>
                    ELSE IF tok.t = "b64" THEN <<Tok(tok.k, "", tok.v)>>
                    ELSE <<Tok("bytes", "", "")>>
         IN  out \o Base64Decode(data, i + 1)

\* the text of the token holds the character "-"
HasDash(tok) ==
    \/ tok.t \in {"open", "close", "label", "begin", "end", "ph", "partial"}
    \/ tok = Dash

\* String.prototype.trim
Trim(text) ==
    LET solid == {i \in 1..Len(text) : ~IsWhitespace(text[i])}
    IN  IF solid = {} THEN <<>>
        ELSE SubSeq(text, Min(solid), CHOOSE i \in solid : \A j \in solid : j <= i)

generateMetadataHeader(metadata) ==
    LET metaJson == Stringify(MetadataValue(metadata))
        base64Data == Base64Encode(metaJson)
        entries == [i \in 1..Len(metadata.packages) |->
                       <<Txt(metadata.packages[i].name), Txt("@"),
                         Txt(metadata.packages[i].version)>>]
        packagesList == Join(entries, <<Txt(","), SP>>, 1)
    IN  <<CommentOpen, NL, MetaLabel, SP>> \o base64Data
            \o <<NL, Txt("Generated at:"), SP>> \o metadata.generatedAt
            \o <<NL, Txt("Packages:"), SP>> \o packagesList
            \o <<NL, CommentClose>>

\* the group ([^-]+) of the first match of
\* /<!--\s*AI-POLICIES-META:\s*([^-]+)\s*-->/ that starts at position i:
\* the text after the label up to the first "-", which must open "-->"
MetaMatchAt(text, i) ==
    LET l == SkipWhitespace(text, i + 1)
        dashes == {j \in (l + 1)..Len(text) : HasDash(text[j])}
    IN  IF text[i] # CommentOpen \/ l > Len(text) THEN <<>>
        ELSE IF text[l] # MetaLabel \/ dashes = {} THEN <<>>
        ELSE IF text[Min(dashes)] # CommentClose \/ Min(dashes) = l + 1
        THEN <<>>
        ELSE <<SubSeq(text, l + 1, Min(dashes) - 1)>>

Null == [kind |-> "null"]

parseMetadataFromHeader(text) ==
    LET matches == {i \in 1..Len(text) : MetaMatchAt(text, i) # <<>>}
    IN  IF matches = {} THEN Null
        ELSE LET base64Data == Trim(MetaMatchAt(text, Min(matches))[1])
                 json == JsonParse(Base64Decode(base64Data, 1))
             IN  IF base64Data = <<>> THEN Null
                 ELSE IF ~json.ok THEN Null
                 ELSE [kind |-> "metadata", value |-> json.value]

(***************************************************************************)
(* PolicyComposer.compose                                                  *)
(***************************************************************************)
\* Step 2 with the test inverted: keeps what it should drop
excludePartialsInverted(ps, excludeIds) ==
    SelectSeq(ps, LAMBDA partial : partial.id \in Range(excludeIds))

\* Step 2: exclude specified partials
excludePartials(ps, excludeIds) ==
    SelectSeq(ps, LAMBDA partial : partial.id \notin Range(excludeIds))

\* compose refusing an empty list, as the callers around it do
composeRejectingEmptyList(ps, cfg, opts, now) ==
    LET protIds == OrElse(opts.protected, cfg.protected)
        included ==
            excludePartials(
                SelectSeq(ps, LAMBDA partial :
                    shouldIncludePartialForProvider(partial, opts.provider)),
                OrElse(opts.exclude, cfg.exclude))
        sortedPartials ==
            sortPartialsBySourceIndex(
                deduplicatePartials(included, protIds).partials)
        mergedContent == mergePartials(sortedPartials, DefaultTransformers)
        metadata == createCompositionMetadata(
                        PackagesOf(sortedPartials, 1, <<>>), sortedPartials,
                        protIds, mergedContent, now)
    IN  IF Len(ps) = 0
        THEN [kind |-> "thrown", message |-> "No policy partials found"]
        ELSE [kind |-> "composition",
              content |-> generateMetadataHeader(metadata) \o <<NL, NL>>
                              \o mergedContent,
              metadata |-> metadata]

compose(ps, cfg, opts, now) ==
    LET protIds == OrElse(opts.protected, cfg.protected)
        excludeIds == OrElse(opts.exclude, cfg.exclude)
        filteredPartials ==
            SelectSeq(ps, LAMBDA partial :
                shouldIncludePartialForProvider(partial, opts.provider))
        includedPartials == excludePartials(filteredPartials, excludeIds)
        deduplicated == deduplicatePartials(includedPartials, protIds)
        sortedPartials == sortPartialsBySourceIndex(deduplicated.partials)
        mergedContent == mergePartials(sortedPartials, DefaultTransformers)
        packages == PackagesOf(sortedPartials, 1, <<>>)
        metadata == createCompositionMetadata(packages, sortedPartials,
                                              protIds, mergedContent, now)
    IN  [kind |-> "composition",
         content |-> generateMetadataHeader(metadata) \o <<NL, NL>>
                         \o mergedContent,
         metadata |-> metadata]

\* what a package ships for a partial: the targets it names and its body
PartialShapes ==
    {<<Undefined, <<Txt("a")>>>>,
     <<Defined(<<"cursor">>), <<Txt("a"), NL, SP, NL, NL, Txt("b")>>>>}

ComposeChoices == Ids \X (0..1) \X PartialShapes

OptionalLists(id) == {Undefined, Defined(<<id>>)}

\* a later release of the packages: a new version and a longer body
UpgradedPartials(ps) ==
    [i \in 1..Len(ps) |->
        [ps[i] EXCEPT !.packageVersion = "1.1.0",
                      !.content = @ \o <<NL, Txt("c")>>]]

Init ==
    /\ pc = "idle"
    /\ \E c \in SeqsUpTo(ComposeChoices, MaxComposePartials) :
            partials = [i \in 1..Len(c) |->
                ComposePartial(i, c[i][1], c[i][2], "1.0.0",
                               c[i][3][1], c[i][3][2])]
    /\ \E e \in OptionalLists("X"), p \in OptionalLists("X") :
            config = [exclude |-> e, protected |-> p]
    /\ \E provider \in Providers,
          e \in OptionalLists("Y") \cup {Defined(<<>>)} :
            options = [provider |-> provider, exclude |-> e,
                       protected |-> Undefined]
    /\ protectedIds = <<>>
    /\ content = <<>>
    /\ existing = <<>>
    /\ clock = 0
    /\ result = NoResult
    /\ previous = NoResult
    /\ parsed = NoResult

\* one call of compose
Compose ==
    /\ pc \in {"idle", "loaded"}
    /\ result' = compose(partials, config, options, clock)
    /\ clock' = clock + 1
    /\ pc' = IF pc = "idle" THEN "composed" ELSE "recomposed"
    /\ UNCHANGED <<partials, protectedIds, config, options, content,
                   existing, previous, parsed>>

\* the caller persists the composed document
WriteConfigurations ==
    /\ pc \in {"composed", "recomposed"}
    /\ existing' = result.content
    /\ pc' = IF pc = "composed" THEN "written" ELSE "rewritten"
    /\ UNCHANGED <<partials, protectedIds, config, options, content,
                   clock, result, previous, parsed>>

\* the user adds a protected block to the generated file
HandEdit ==
    /\ pc = "written"
    /\ \E id \in Ids :
            existing' = existing \o <<NL, BeginMarker(id), Txt("w"), EndMarker>>
    /\ pc' = "edited"
    /\ UNCHANGED <<partials, protectedIds, config, options, content,
                   clock, result, previous, parsed>>

\* the next run loads the packages again, as they were or upgraded;
\* previous keeps the run before it: its partials and what it returned
LoadPackages ==
    /\ pc \in {"written", "edited"}
    /\ \E upgraded \in BOOLEAN :
            partials' = IF upgraded THEN UpgradedPartials(partials)
                        ELSE partials
    /\ previous' = [kind |-> "run", partials |-> partials, result |-> result]
    /\ pc' = "loaded"
    /\ UNCHANGED <<protectedIds, config, options, content, existing,
                   clock, result, parsed>>

Next ==
    \/ Compose
    \/ WriteConfigurations
    \/ HandEdit
    \/ LoadPackages

Spec == Init /\ [][Next]_vars

\* the exclude list of a call: the one of the options when the call gives
\* one, else the one of the configuration
ExcludeList ==
    IF options.exclude.present THEN options.exclude.list
    ELSE config.exclude.list

Composed == pc \in {"composed", "recomposed"}

\* the identifiers that have a section in the document
SectionIds(doc) == {doc[i].v : i \in {j \in 1..Len(doc) : doc[j].t = "partial"}}

MetadataPartialIds(m) == {m.partials[i].id : i \in 1..Len(m.partials)}

EligibleIds ==
    {partials[i].id : i \in {j \in 1..Len(partials) :
        \/ ~partials[j].providers.present
        \/ options.provider \in Range(partials[j].providers.list)}}

TimeWords == {toISOString(c)[5].v : c \in 0..2}

\* a document with the generation timestamp normalised away, in the summary
\* line and in the encoded payload
NormalisedDocument(doc) ==
    [i \in 1..Len(doc) |->
        IF doc[i].v \in TimeWords THEN [doc[i] EXCEPT !.v = "T"] ELSE doc[i]]

NormalisedMetadata(m) == [m EXCEPT !.generatedAt = <<>>]

\* C8: two compose calls with the same partials, configuration and options
\* return the same document and the same metadata once the generation
\* timestamp is normalised away in both.
C8_Determinism ==
    (pc = "recomposed" /\ previous.partials = partials) =>
        /\ NormalisedDocument(result.content)
               = NormalisedDocument(previous.result.content)
        /\ NormalisedMetadata(result.metadata)
               = NormalisedMetadata(previous.result.metadata)

C8_Witness ==
    /\ pc = "recomposed"
    /\ previous.partials = partials
    /\ Len(result.metadata.partials) = 2
    /\ result.content # previous.result.content
    /\ result.metadata.generatedAt # previous.result.metadata.generatedAt

\* C6: every protected block of the previously generated document, as it
\* stands on disk, is in the document composed again from the updated
\* partials, under the same identifier and with exactly the same text.
C6_ProtectedBlockRoundTrip ==
    pc = "recomposed" =>
        \A block \in Range(extractProtectedBlocks(existing)) :
            \E kept \in Range(extractProtectedBlocks(result.content)) :
                kept.id = block.id /\ kept.content = block.content

(***************************************************************************)
(* The metadata codec on its own: a record is created, encoded as a header *)
(* and decoded again                                                       *)
(***************************************************************************)
InitMeta ==
    /\ pc = "start"
    /\ \E c \in SeqsUpTo(ComposeChoices, MaxComposePartials) :
            partials = [i \in 1..Len(c) |->
                ComposePartial(i, c[i][1], c[i][2], "1.0.0",
                               c[i][3][1], c[i][3][2])]
    /\ protectedIds \in ProtectedLists
    /\ content \in {<<>>, <<Txt("a")>>}
    /\ clock \in 0..1
    /\ existing = <<>>
    /\ result = NoResult
    /\ parsed = NoResult
    /\ config = NoResult
    /\ options = NoResult
    /\ previous = NoResult

CreateMetadata ==
    /\ pc = "start"
    /\ result' = createCompositionMetadata(PackagesOf(partials, 1, <<>>),
                     partials, protectedIds, content, clock)
    /\ pc' = "created"
    /\ UNCHANGED <<partials, protectedIds, config, options, content,
                   existing, clock, previous, parsed>>

GenerateHeader ==
    /\ pc = "created"
    /\ existing' = generateMetadataHeader(result)
    /\ pc' = "encoded"
    /\ UNCHANGED <<partials, protectedIds, config, options, content,
                   clock, result, previous, parsed>>

ParseHeader ==
    /\ pc = "encoded"
    /\ parsed' = parseMetadataFromHeader(existing)
    /\ pc' = "decoded"
    /\ UNCHANGED <<partials, protectedIds, config, options, content,
                   existing, clock, result, previous>>

NextMeta ==
    \/ CreateMetadata
    \/ GenerateHeader
    \/ ParseHeader

SpecMeta == InitMeta /\ [][NextMeta]_vars

\* the values of the member named word of a JSON object
MembersNamed(object, word) ==
    {object.members[i].value :
        i \in {k \in 1..Len(object.members) :
                    object.members[k].key = <<Txt(word)>>}}

\* C7: decoding the header generated for a metadata record returns a record
\* (not null) that equals the encoded one in packages, contentHash, partials
\* and protected set.
C7_MetadataRoundTrip ==
    pc = "decoded" =>
        /\ parsed # Null
        /\ parsed.kind = "metadata"
        /\ \A word \in {"packages", "contentHash", "partials",
                        "protectedPartials"} :
                MembersNamed(parsed.value, word)
                    = MembersNamed(MetadataValue(result), word)

(***************************************************************************)
(* Ordering by composition rules (priority-tier model)                     *)
(***************************************************************************)
OrderPartial(ref, id, layer, weight, deps) ==
    [ref |-> ref, id |-> id, layer |-> layer, weight |-> weight,
     dependsOn |-> deps]

\* layerOrder.get(layer) ?? 999, layerOrder being filled from the
\* configured order (a layer named twice keeps its last position)
LayerOrder(order, layer) ==
    LET at == {i \in 1..Len(order) : order[i] = layer}
    IN  IF at = {} THEN 999
        ELSE (CHOOSE i \in at : \A j \in at : j <= i) - 1

\* the comparator with the weights compared the other way round
compareByCompositionWeightDescending(a, b, order) ==
    IF LayerOrder(order, a.layer) # LayerOrder(order, b.layer)
    THEN LayerOrder(order, a.layer) - LayerOrder(order, b.layer)
    ELSE IF a.weight # b.weight THEN b.weight - a.weight
    ELSE localeCompare(a.id, b.id)

\* the comparator handed to sort
compareByComposition(a, b, order) ==
    IF LayerOrder(order, a.layer) # LayerOrder(order, b.layer)
    THEN LayerOrder(order, a.layer) - LayerOrder(order, b.layer)
    ELSE IF a.weight # b.weight THEN a.weight - b.weight
    ELSE localeCompare(a.id, b.id)

\* [...partials].sort(comparator): stable
sortPartialsByComposition(ps, order) ==
    LET n == Len(ps)
        before(j, i) ==
            \/ compareByComposition(ps[j], ps[i], order) < 0
            \/ compareByComposition(ps[j], ps[i], order) = 0 /\ j < i
        rank(i) == Cardinality({j \in 1..n : before(j, i)}) + 1
    IN  [r \in 1..n |-> ps[CHOOSE i \in 1..n : rank(i) = r]]

OrderLayers == {"core", "stack", "team"}

OrderWeights == {5, 10, 20}

\* compose.order of the configuration
ComposeOrders == {<<"core", "domain", "stack", "team">>, <<"team", "core">>}

InitOrder ==
    /\ pc = "start"
    /\ \E ids \in DepIdLists :
         \E shape \in [1..Len(ids) -> OrderLayers \X OrderWeights] :
            partials = [i \in 1..Len(ids) |->
                OrderPartial(i, ids[i], shape[i][1], shape[i][2],
                             IF ids[i] = "B" THEN <<"A">> ELSE <<>>)]
    /\ \E order \in ComposeOrders : config = [order |-> order]
    /\ protectedIds = <<>>
    /\ result = NoResult
    /\ options = NoResult
    /\ content = <<>>
    /\ existing = <<>>
    /\ clock = 0
    /\ previous = NoResult
    /\ parsed = NoResult

SortByComposition ==
    /\ pc = "start"
    /\ result' = [kind |-> "sorted",
                  partials |-> sortPartialsByComposition(partials,
                                                         config.order)]
    /\ pc' = "done"
    /\ UNCHANGED <<partials, protectedIds, runVars>>

NextOrder == SortByComposition

SpecOrder == InitOrder /\ [][NextOrder]_vars

\* the position of a tier in the configured tier order
TierPosition(layer) ==
    CHOOSE i \in 1..Len(config.order) : config.order[i] = layer

\* a stands before b, or level with it, by (tier position, weight, identifier)
InCompositionOrder(a, b) ==
    \/ TierPosition(a.layer) < TierPosition(b.layer)
    \/ /\ TierPosition(a.layer) = TierPosition(b.layer)
       /\ \/ a.weight < b.weight
          \/ a.weight = b.weight /\ NameRank(a.id) <= NameRank(b.id)

ScenarioABC ==
    /\ config.order = <<"core", "domain", "stack", "team">>
    /\ {[id |-> p.id, layer |-> p.layer, weight |-> p.weight,
         dependsOn |-> p.dependsOn] : p \in Range(partials)}
           = {[id |-> "A", layer |-> "core", weight |-> 10, dependsOn |-> <<>>],
              [id |-> "B", layer |-> "stack", weight |-> 20,
               dependsOn |-> <<"A">>],
              [id |-> "C", layer |-> "team", weight |-> 5, dependsOn |-> <<>>]}

\* C11: sortPartialsByComposition returns the partials it was given, sorted
\* by (position of the tier in the configured order, weight, identifier),
\* each ascending; A (core, 10), B (stack, 20, depends on A), C (team, 5)
\* under the order core, domain, stack, team come out as A, B, C.
C11_TierOrdering ==
    pc = "done" =>
        /\ Len(result.partials) = Len(partials)
        /\ Range(result.partials) = Range(partials)
        /\ \A i \in 1..Len(result.partials), j \in 1..Len(result.partials) :
                (/\ i < j
                 /\ result.partials[i].layer \in Range(config.order)
                 /\ result.partials[j].layer \in Range(config.order))
                    => InCompositionOrder(result.partials[i],
                                          result.partials[j])
        /\ ScenarioABC =>
                [i \in 1..3 |-> result.partials[i].id] = <<"A", "B", "C">>

C11_Witness ==
    /\ pc = "done"
    /\ ScenarioABC
    /\ [i \in 1..3 |-> partials[i].id] = <<"C", "B", "A">>
    /\ [i \in 1..3 |-> result.partials[i].id] = <<"A", "B", "C">>

(***************************************************************************)
(* Ordering by declaration index (positional model)                        *)
(***************************************************************************)
InitSort ==
    /\ pc = "start"
    /\ partials \in DedupInputs
    /\ protectedIds = <<>>
    /\ result = NoResult
    /\ NoRun

SortBySourceIndex ==
    /\ pc = "start"
    /\ result' = [kind |-> "sorted",
                  partials |-> sortPartialsBySourceIndex(partials)]
    /\ pc' = "done"
    /\ UNCHANGED <<partials, protectedIds, runVars>>

NextSort == SortBySourceIndex

SpecSort == InitSort /\ [][NextSort]_vars

\* C12: the sequence returned by sortPartialsBySourceIndex holds the partials
\* it was given, in ascending order of declaration index, and partials with
\* the same index stand in the order they had in the input.
C12_PositionalStableSort ==
    pc = "done" =>
        /\ Len(result.partials) = Len(partials)
        /\ Range(result.partials) = Range(partials)
        /\ \A i \in 1..Len(result.partials), j \in 1..Len(result.partials) :
                i < j =>
                    \/ result.partials[i].sourceIndex
                           < result.partials[j].sourceIndex
                    \/ /\ result.partials[i].sourceIndex
                              = result.partials[j].sourceIndex
                       /\ result.partials[i].ref < result.partials[j].ref

C12_Witness ==
    /\ pc = "done"
    /\ result.partials # partials
    /\ \E i \in 1..Len(partials), j \in 1..Len(partials) :
            /\ i < j
            /\ partials[i].sourceIndex = partials[j].sourceIndex
            /\ partials[i].id # partials[j].id

\* the dependency identifiers of p that no partial of the list carries
AbsentDeps(p) ==
    {d \in Range(p.dependsOn) : \A q \in Range(partials) : q.id # d}

MissingEntriesOf(p) ==
    {k \in 1..Len(result.missing) : result.missing[k].partialId = p.id}

C15_EmptyInput ==
    (Composed /\ Len(partials) = 0) =>
        /\ result.kind = "composition"
        /\ SectionIds(result.content) = {}
        /\ Len(result.content) > 0
        /\ result.metadata.partials = <<>>
        /\ result.metadata.packages = <<>>

C15_Witness ==
    /\ Composed
    /\ Len(partials) = 0
    /\ result.kind = "composition"
    /\ config.exclude.present

(***************************************************************************)
(* Composition for one target, over every shape of the providers field     *)
(***************************************************************************)
ProviderSets ==
    {Undefined, Defined(<<>>), Defined(<<"cursor">>), Defined(<<"copilot">>),
     Defined(<<"cursor", "copilot">>)}

InitTarget ==
    /\ pc = "idle"
    /\ \E c \in SeqsUpTo(Ids \X (0..1) \X ProviderSets, MaxTargetPartials) :
            partials = [i \in 1..Len(c) |->
                ComposePartial(i, c[i][1], c[i][2], "1.0.0", c[i][3],
                               <<Txt("a")>>)]
    /\ config = [exclude |-> Undefined, protected |-> Undefined]
    /\ \E provider \in Providers :
            options = [provider |-> provider, exclude |-> Undefined,
                       protected |-> Undefined]
    /\ protectedIds = <<>>
    /\ content = <<>>
    /\ existing = <<>>
    /\ clock = 0
    /\ result = NoResult
    /\ previous = NoResult
    /\ parsed = NoResult

NextTarget == Compose

SpecTarget == InitTarget /\ [][NextTarget]_vars

\* the partial applies to target: it names no targets, or names this one
AppliesTo(p, target) ==
    \/ ~p.providers.present
    \/ p.providers.list = <<>>
    \/ \E i \in 1..Len(p.providers.list) : p.providers.list[i] = target

SectionHeaders(doc) ==
    {[id |-> doc[i].v, packageName |-> doc[i].k] :
        i \in {j \in 1..Len(doc) : doc[j].t = "partial"}}

\* C16: a partial without a target set, or with an empty one, is included
\* for every target, and a partial with a non-empty set only for the targets
\* of the set: the document composed for a target has a section for an
\* identifier exactly when a partial carrying it applies to the target, and
\* every section comes from a partial that applies.
C16_TargetApplicability ==
    Composed =>
        /\ \A id \in Ids :
                (id \in SectionIds(result.content)) <=>
                    \E p \in Range(partials) :
                        p.id = id /\ AppliesTo(p, options.provider)
        /\ \A h \in SectionHeaders(result.content) :
                \E p \in Range(partials) :
                    /\ p.id = h.id
                    /\ p.packageName = h.packageName
                    /\ AppliesTo(p, options.provider)

C16_Witness ==
    /\ Composed
    /\ Len(partials) = 2
    /\ partials[1].id = "X" /\ partials[1].providers = Defined(<<>>)
    /\ partials[2].id = "Y" /\ partials[2].providers.present
    /\ ~AppliesTo(partials[2], options.provider)
    /\ SectionIds(result.content) = {"X"}

(***************************************************************************)
(* Decoding the header of an arbitrary document                            *)
(***************************************************************************)
\* the pieces a document is made of: the comment delimiters, the marker,
\* a space, text that is not base64 of anything, and the base64 text of the
\* JSON brackets
HeaderTokens ==
    {CommentOpen, MetaLabel, CommentClose, SP, Txt("a"),
     Tok("b64", "json", "["), Tok("b64", "json", "]")}

InitParse ==
    /\ pc = "encoded"
    /\ existing \in SeqsUpTo(HeaderTokens, MaxHeaderLen)
    /\ partials = <<>>
    /\ protectedIds = <<>>
    /\ content = <<>>
    /\ clock = 0
    /\ result = NoResult
    /\ parsed = NoResult
    /\ config = NoResult
    /\ options = NoResult
    /\ previous = NoResult

NextParse == ParseHeader

SpecParse == InitParse /\ [][NextParse]_vars

\* the value has the members of a composition metadata record
IsMetadataRecord(value) ==
    /\ value.j = "object"
    /\ \A word \in {"packages", "contentHash", "generatedAt", "partials",
                    "protectedPartials"} :
            MembersNamed(value, word) # {}

\* C17: parseMetadataFromHeader never raises, and it returns null for a
\* document without a metadata marker and for a document whose marker
\* carries a payload that is not a validly encoded metadata record: whatever
\* it returns other than null is a metadata record.
C17_TolerantDecoding ==
    pc = "decoded" =>
        \/ parsed = Null
        \/ parsed.kind = "metadata" /\ IsMetadataRecord(parsed.value)

\* the part of C17 that holds: a document without the marker gives null
C17_NoMarkerGivesNull ==
    (pc = "decoded" /\ \A i \in 1..Len(existing) : existing[i] # MetaLabel)
        => parsed = Null

(***************************************************************************)
(* Merging, in the positional and in the priority-tier model               *)
(***************************************************************************)
MergePartial(ref, id, layer, body) ==
    [ref |-> ref, id |-> id, packageName |-> Packages[ref], layer |-> layer,
     content |-> body]

\* "## " and the title of the layer; a layer without a title gets its own
\* name, capitalised, and " Policies"
createLayerHeader(layer) ==
    CASE layer = "core" -> Heading("Core Policies")
      [] layer = "domain" -> Heading("Domain-Specific Policies")
      [] layer = "stack" -> Heading("Technology Stack Policies")
      [] layer = "team" -> Heading("Team-Specific Policies")
      [] OTHER -> Tok("h", "Policies", layer)

createTeamAppendSection(text) ==
    <<Tok("teamopen", "", ""), NL, Heading("Team Customizations"), NL, NL>>
        \o text \o <<NL, Tok("teamclose", "", "")>>

\* the sections of the layers of the order, each non-empty layer under its
\* header; a partial of a layer the order does not name is in no layer
RECURSIVE LayerSections(_, _, _, _)
LayerSections(ps, order, transformers, i) ==
    IF i > Len(order) THEN <<>>
    ELSE LET ofLayer == SelectSeq(ps, LAMBDA p : p.layer = order[i])
             layerPartials == MergeSections(ofLayer, transformers, 1)
             rest == LayerSections(ps, order, transformers, i + 1)
         IN  IF Len(layerPartials) > 0
             THEN <<(<<createLayerHeader(order[i]), NL>>
                        \o Join(layerPartials, <<NL, NL>>, 1))>> \o rest
             ELSE rest

\* mergePartials of the priority-tier model
mergePartialsByLayer(ps, composeSettings, opts) ==
    LET layers == LayerSections(ps, composeSettings.order,
                                opts.transformers, 1)
        sections ==
            IF /\ composeSettings.teamAppend
               /\ opts.teamAppendContent.present
               /\ opts.teamAppendContent.list # <<>>
            THEN Append(layers,
                        createTeamAppendSection(opts.teamAppendContent.list))
            ELSE layers
    IN  Join(sections, <<NL, NL>>, 1)

MergeBodies ==
    {<<SP, NL>>, <<Txt("a")>>, <<Txt("a"), NL, NL, NL, Txt("b")>>}

MergeLayers == {"core", "stack", "team"}

MergePipelines == {DefaultTransformers, DefaultTransformers \o <<"redact">>}

InitMerge ==
    /\ pc = "start"
    /\ \E c \in SeqsUpTo(Ids \X MergeLayers \X MergeBodies, MaxMergePartials) :
            partials = [i \in 1..Len(c) |->
                MergePartial(i, c[i][1], c[i][2], c[i][3])]
    /\ \E order \in ComposeOrders, teamAppend \in BOOLEAN :
            config = [order |-> order, teamAppend |-> teamAppend]
    /\ \E transformers \in MergePipelines,
          teamAppendContent \in {Undefined, Defined(<<Txt("t")>>)} :
            options = [transformers |-> transformers,
                       teamAppendContent |-> teamAppendContent]
    /\ protectedIds = <<>>
    /\ content = <<>>
    /\ existing = <<>>
    /\ clock = 0
    /\ result = NoResult
    /\ previous = NoResult
    /\ parsed = NoResult

MergePartials ==
    /\ pc = "start"
    /\ result' = mergePartials(partials, options.transformers)
    /\ pc' = "merged"
    /\ UNCHANGED <<partials, protectedIds, runVars>>

MergePartialsByLayer ==
    /\ pc = "start"
    /\ result' = mergePartialsByLayer(partials, config, options)
    /\ pc' = "mergedByLayer"
    /\ UNCHANGED <<partials, protectedIds, runVars>>

NextMerge ==
    \/ MergePartials
    \/ MergePartialsByLayer

SpecMerge == InitMerge /\ [][NextMerge]_vars

\* the body of the partial after the pipeline of the run
Transformed(p) == ApplyTransformers(options.transformers, p.content, 1)

Retained == SelectSeq(partials, LAMBDA p : TrimIsNonEmpty(Transformed(p)))

\* the positions of the section boundary comments of doc, in order
SectionPositions(doc) ==
    SelectSeq([i \in 1..Len(doc) |-> i], LAMBDA i : doc[i].t = "partial")

\* doc has exactly the sections of the partials ps, in that order, each a
\* boundary comment directly followed by the transformed content
HasSectionsOf(doc, ps) ==
    LET at == SectionPositions(doc)
    IN  /\ Len(at) = Len(ps)
        /\ \A k \in 1..Len(ps) :
                OccursAt(doc, <<createSectionHeader(ps[k]), NL>>
                                  \o Transformed(ps[k]), at[k])

\* C18: the merged document has one section (boundary comment carrying the
\* identifier and package name, directly followed by the transformed
\* content) for each partial whose transformed body is non-empty after
\* trimming, in the given order, and no section for a partial whose
\* transformed body is empty after trimming.
C18_EmptySectionsDropped ==
    pc \in {"merged", "mergedByLayer"} => HasSectionsOf(result, Retained)

\* the positional merger does as C18 says
C18_PositionalSections ==
    pc = "merged" => HasSectionsOf(result, Retained)

\* the priority-tier merger drops empty sections too, but gives sections
\* only to the partials of the layers of the order, layer by layer
C18_LayerSections ==
    pc = "mergedByLayer" =>
        /\ SectionIds(result) \subseteq {Retained[k].id : k \in 1..Len(Retained)}
        /\ \A k \in 1..Len(Retained) :
                (\E i \in 1..Len(config.order) :
                        config.order[i] = Retained[k].layer)
                    => Contains(result,
                                <<createSectionHeader(Retained[k]), NL>>
                                    \o Transformed(Retained[k]))

(***************************************************************************)
(* PolicyComposer.validateInputs                                           *)
(***************************************************************************)
ValidatePartial(ref, id, packageName, layer) ==
    [ref |-> ref, id |-> id, packageName |-> packageName, layer |-> layer]

DuplicateError(partial) ==
    [message |-> <<"Duplicate partial ID", partial.id, partial.packageName>>,
     type |-> "conflict", partialId |-> partial.id]

\* idsPerPackage.get(name), a Map from package names to Sets of identifiers
PackageIds(idsPerPackage, name) ==
    IF name \in DOMAIN idsPerPackage THEN idsPerPackage[name] ELSE {}

\* the loop over the partials with one Set of identifiers for all packages
RECURSIVE DuplicateLoopAcrossPackages(_, _, _, _)
DuplicateLoopAcrossPackages(ps, i, idsPerPackage, errors) ==
    IF i > Len(ps) THEN errors
    ELSE LET partial == ps[i]
             packageIds == PackageIds(idsPerPackage, "all")
         IN  DuplicateLoopAcrossPackages(ps, i + 1,
                 ("all" :> (packageIds \cup {partial.id})) @@ idsPerPackage,
                 IF partial.id \in packageIds
                 THEN Append(errors, DuplicateError(partial))
                 ELSE errors)

\* the loop over the partials that checks for duplicate IDs within a package
RECURSIVE DuplicateLoop(_, _, _, _)
DuplicateLoop(ps, i, idsPerPackage, errors) ==
    IF i > Len(ps) THEN errors
    ELSE LET partial == ps[i]
             packageIds == PackageIds(idsPerPackage, partial.packageName)
         IN  DuplicateLoop(ps, i + 1,
                 (partial.packageName :> (packageIds \cup {partial.id}))
                     @@ idsPerPackage,
                 IF partial.id \in packageIds
                 THEN Append(errors, DuplicateError(partial))
                 ELSE errors)

\* the protected identifiers of the configuration no partial carries
RECURSIVE ProtectedLoop(_, _, _, _)
ProtectedLoop(protected, allPartialIds, i, errors) ==
    IF i > Len(protected) THEN errors
    ELSE ProtectedLoop(protected, allPartialIds, i + 1,
             IF protected[i] \notin allPartialIds
             THEN Append(errors,
                    [message |-> <<"Protected partial", protected[i],
                                   "not found in any package">>,
                     type |-> "validation", partialId |-> protected[i]])
             ELSE errors)

\* validateInputs of the positional model; the excluded identifiers that no
\* partial carries are only written to the console
validateInputs(ps, cfg) ==
    LET duplicates == DuplicateLoop(ps, 1, <<>>, <<>>)
        allPartialIds == {ps[i].id : i \in 1..Len(ps)}
    IN  IF cfg.protected.present
        THEN ProtectedLoop(cfg.protected.list, allPartialIds, 1, duplicates)
        ELSE duplicates

\* the partials whose layer is not in compose.order
RECURSIVE LayerLoop(_, _, _, _)
LayerLoop(ps, orderSet, i, errors) ==
    IF i > Len(ps) THEN errors
    ELSE LayerLoop(ps, orderSet, i + 1,
             IF ps[i].layer \notin orderSet
             THEN Append(errors,
                    [message |-> <<"Partial", ps[i].id, "has layer",
                                   ps[i].layer,
                                   "which is not in compose.order">>,
                     type |-> "validation", partialId |-> ps[i].id])
             ELSE errors)

\* validateInputs of the priority-tier model
validateInputsByLayer(ps, cfg) ==
    LayerLoop(ps, Range(cfg.order), 1, DuplicateLoop(ps, 1, <<>>, <<>>))

ValidatePackages == {"P1", "P2"}

ValidateLayers == {"core", "stack"}

InitValidate ==
    /\ pc = "start"
    /\ \E c \in SeqsUpTo(Ids \X ValidatePackages \X ValidateLayers,
                         MaxValidatePartials) :
            partials = [i \in 1..Len(c) |->
                ValidatePartial(i, c[i][1], c[i][2], c[i][3])]
    /\ \E order \in ComposeOrders, protected \in OptionalLists("X"),
          exclude \in OptionalLists("Y") :
            config = [order |-> order, protected |-> protected,
                      exclude |-> exclude]
    /\ protectedIds = <<>>
    /\ content = <<>>
    /\ existing = <<>>
    /\ clock = 0
    /\ result = NoResult
    /\ options = NoResult
    /\ previous = NoResult
    /\ parsed = NoResult

ValidateInputs ==
    /\ pc = "start"
    /\ result' = validateInputs(partials, config)
    /\ pc' = "validated"
    /\ UNCHANGED <<partials, protectedIds, runVars>>

ValidateInputsByLayer ==
    /\ pc = "start"
    /\ result' = validateInputsByLayer(partials, config)
    /\ pc' = "validatedByLayer"
    /\ UNCHANGED <<partials, protectedIds, runVars>>

NextValidate ==
    \/ ValidateInputs
    \/ ValidateInputsByLayer

SpecValidate == InitValidate /\ [][NextValidate]_vars

\* the partials that have an earlier partial of the same package and the
\* same identifier before them in the list
LaterDuplicates ==
    SelectSeq(partials,
              LAMBDA p : \E q \in Range(partials) :
                            /\ q.ref < p.ref
                            /\ q.packageName = p.packageName
                            /\ q.id = p.id)

ConflictProblems == SelectSeq(result, LAMBDA e : e.type = "conflict")

\* C19: validateInputs reports a 'conflict' problem for a partial exactly
\* when an earlier partial of the list has the same package name and the
\* same identifier: the conflict problems are those of the later duplicates,
\* one each and in their order, and partials of different packages that
\* share an identifier produce none.
C19_DuplicatesWithinPackage ==
    pc \in {"validated", "validatedByLayer"} =>
        /\ Len(ConflictProblems) = Len(LaterDuplicates)
        /\ \A k \in 1..Len(LaterDuplicates) :
                /\ ConflictProblems[k].partialId = LaterDuplicates[k].id
                /\ ConflictProblems[k].message =
                        <<"Duplicate partial ID", LaterDuplicates[k].id,
                          LaterDuplicates[k].packageName>>

C19_Witness ==
    /\ pc = "validated"
    /\ Len(partials) = 3
    /\ partials[1].id = "X" /\ partials[1].packageName = "P1"
    /\ partials[2].id = "X" /\ partials[2].packageName = "P2"
    /\ partials[3].id = "X" /\ partials[3].packageName = "P1"
    /\ Len(ConflictProblems) = 1
    /\ ConflictProblems[1].message = <<"Duplicate partial ID", "X", "P1">>

(***************************************************************************)
(* generateConfigurations: one run that composes for each configured       *)
(* target                                                                  *)
(***************************************************************************)
\* the content of a partial that is not a string: the default transformer
\* calls content.replace on it, which raises a TypeError
NotAString == <<Tok("undefined", "", "")>>

Thrown(message) == [kind |-> "thrown", message |-> message]

\* compose with its try and catch: an error raised by a transformer while
\* the partials are merged is thrown again as "Composition failed: ..."
composeCatching(ps, cfg, opts, now) ==
    LET protIds == OrElse(opts.protected, cfg.protected)
        excludeIds == OrElse(opts.exclude, cfg.exclude)
        filteredPartials ==
            SelectSeq(ps, LAMBDA partial :
                shouldIncludePartialForProvider(partial, opts.provider))
        includedPartials == excludePartials(filteredPartials, excludeIds)
        deduplicated == deduplicatePartials(includedPartials, protIds)
        sortedPartials == sortPartialsBySourceIndex(deduplicated.partials)
    IN  IF \E i \in 1..Len(sortedPartials) :
                sortedPartials[i].content = NotAString
        THEN Thrown(<<"Composition failed: ",
                      "content.replace is not a function">>)
        ELSE compose(ps, cfg, opts, now)

\* the document of the target around the composed one
renderCursorRules(compositionResult) ==
    <<Tok("template", "cursor", "")>> \o compositionResult.content

renderCopilotInstructions(compositionResult) ==
    <<Tok("template", "copilot", "")>> \o compositionResult.content

\* [...new Set([...a, ...b])]
RECURSIVE UniqueInOrder(_, _, _)
UniqueInOrder(list, i, acc) ==
    IF i > Len(list) THEN acc
    ELSE UniqueInOrder(list, i + 1,
             IF list[i] \in Range(acc) THEN acc ELSE Append(acc, list[i]))

generateConfigurations(cfg, packages, allPartials, defaultProtected, now) ==
    LET protectedPartials ==
            UniqueInOrder(OrElse(cfg.protected, Defined(<<>>)) \o defaultProtected,
                          1, <<>>)
        opts(provider) == [provider |-> provider,
                           protected |-> Defined(protectedPartials),
                           exclude |-> cfg.exclude]
        forCursor == composeCatching(allPartials, cfg, opts("cursor"), now)
        forCopilot == composeCatching(allPartials, cfg, opts("copilot"),
                                      now + 1)
    IN  IF Len(packages) = 0 THEN Thrown(<<"No policy packages found">>)
        ELSE IF Len(allPartials) = 0
        THEN Thrown(<<"No policy partials found">>)
        ELSE IF cfg.output.cursor /\ forCursor.kind = "thrown"
        THEN forCursor
        ELSE IF cfg.output.copilot /\ forCopilot.kind = "thrown"
        THEN forCopilot
        ELSE [kind |-> "sync",
              cursor |-> IF cfg.output.cursor
                         THEN [kind |-> "file",
                               content |-> renderCursorRules(forCursor)]
                         ELSE Null,
              copilot |-> IF cfg.output.copilot
                          THEN [kind |-> "file",
                                content |->
                                    renderCopilotInstructions(forCopilot)]
                          ELSE Null]

\* what a package ships for a partial: its targets and its content
SyncShapes ==
    {Undefined, Defined(<<"cursor">>), Defined(<<"copilot">>)}
        \X {<<Txt("a")>>, NotAString}

\* the partial at position i of the list comes from the package at position
\* i of the extends array, which may name one more package, without partials
InitSync ==
    /\ pc = "start"
    /\ \E c \in SeqsUpTo(Ids \X SyncShapes, MaxSyncPartials) :
            /\ partials = [i \in 1..Len(c) |->
                    ComposePartial(i, c[i][1], i - 1, "1.0.0",
                                   c[i][2][1], c[i][2][2])]
            /\ \E n \in {Len(c), Min({Len(c) + 1, Len(Packages)})},
                  cursor \in BOOLEAN, copilot \in BOOLEAN,
                  e \in OptionalLists("Y"), p \in OptionalLists("X") :
                    config = [extends |-> SubSeq(Packages, 1, n),
                              output |-> [cursor |-> cursor,
                                          copilot |-> copilot],
                              exclude |-> e, protected |-> p]
    /\ protectedIds \in {<<>>, <<"X">>}
    /\ content = <<>>
    /\ existing = <<>>
    /\ clock = 0
    /\ result = NoResult
    /\ options = NoResult
    /\ previous = NoResult
    /\ parsed = NoResult

GenerateConfigurations ==
    /\ pc = "start"
    /\ result' = generateConfigurations(config, config.extends, partials,
                                        protectedIds, clock)
    /\ clock' = clock + 2
    /\ pc' = "generated"
    /\ UNCHANGED <<partials, protectedIds, config, options, content,
                   existing, previous, parsed>>

NextSync == GenerateConfigurations

SpecSync == InitSync /\ [][NextSync]_vars

\* composing for the target fails in the run, because a transformer raises
\* on a partial that reaches the merge for that target
FailsFor(provider) ==
    composeCatching(partials, config,
        [provider |-> provider,
         protected |-> Defined(UniqueInOrder(
                          OrElse(config.protected, Defined(<<>>)) \o protectedIds,
                          1, <<>>)),
         exclude |-> config.exclude], 0).kind = "thrown"

C20_BothReturnedWithoutFailure ==
    (/\ pc = "generated"
     /\ config.output.cursor /\ config.output.copilot
     /\ Len(partials) > 0
     /\ \A p \in Range(partials) : p.content # NotAString) =>
        /\ result.kind = "sync"
        /\ result.cursor # Null
        /\ result.copilot # Null

(***************************************************************************)
(* PolicyComposer.compose of the priority-tier model                       *)
(***************************************************************************)
LayeredPartial(ref, id, layer, deps) ==
    [ref |-> ref, id |-> id, packageName |-> Packages[ref],
     packageVersion |-> "1.0.0", layer |-> layer, weight |-> 10,
     protected |-> FALSE, dependsOn |-> deps, providers |-> Undefined,
     content |-> <<Txt("a")>>]

\* a number or a boolean in a JSON text
JsonLiteral(text) == [j |-> "literal", text |-> text]

createCompositionMetadataByLayer(packages, ps, settings, text, now) ==
    [packages |-> packages,
     contentHash |-> createContentHash(text),
     generatedAt |-> toISOString(now),
     partials |-> [i \in 1..Len(ps) |->
                      [id |-> ps[i].id, packageName |-> ps[i].packageName,
                       layer |-> ps[i].layer, weight |-> ps[i].weight]],
     settings |-> settings]

\* the value JSON.stringify serialises for a record of the priority-tier
\* model
MetadataValueByLayer(m) ==
    JsonObject(<<
        Member("packages", JsonObject(
            [i \in 1..Len(m.packages) |->
                Member(m.packages[i].name,
                       JsonString(<<Txt(m.packages[i].version)>>))])),
        Member("contentHash", JsonString(
            [i \in 1..Len(m.contentHash) |-> Txt(m.contentHash[i])])),
        Member("generatedAt", JsonString(m.generatedAt)),
        Member("partials", JsonArray(
            [i \in 1..Len(m.partials) |->
                JsonObject(<<
                    Member("id", JsonString(<<Txt(m.partials[i].id)>>)),
                    Member("packageName",
                           JsonString(<<Txt(m.partials[i].packageName)>>)),
                    Member("layer", JsonString(<<Txt(m.partials[i].layer)>>)),
                    Member("weight",
                           JsonLiteral(ToString(m.partials[i].weight)))>>)])),
        Member("settings", JsonObject(<<
            Member("order", JsonArray(
                [i \in 1..Len(m.settings.order) |->
                    JsonString(<<Txt(m.settings.order[i])>>)])),
            Member("teamAppend",
                   JsonLiteral(ToString(m.settings.teamAppend)))>>))>>)

generateMetadataHeaderByLayer(metadata) ==
    LET metaJson == Stringify(MetadataValueByLayer(metadata))
        base64Data == Base64Encode(metaJson)
        entries == [i \in 1..Len(metadata.packages) |->
                       <<Txt(metadata.packages[i].name), Txt("@"),
                         Txt(metadata.packages[i].version)>>]
        packagesList == Join(entries, <<Txt(","), SP>>, 1)
    IN  <<CommentOpen, NL, MetaLabel, SP>> \o base64Data
            \o <<NL, Txt("Generated at:"), SP>> \o metadata.generatedAt
            \o <<NL, Txt("Packages:"), SP>> \o packagesList
            \o <<NL, CommentClose>>

\* the errors Step 4 pushes: one for all cycles, one per partial with
\* missing dependencies
DependencyErrors(dependencyResult) ==
    (IF Len(dependencyResult.circular) > 0
     THEN <<[message |-> [text |-> "Circular dependencies detected: ",
                           cycles |-> dependencyResult.circular],
             type |-> "circular"]>>
     ELSE <<>>)
    \o [i \in 1..Len(dependencyResult.missing) |->
            [message |->
                [text |-> "Missing dependencies for ",
                 partialId |-> dependencyResult.missing[i].partialId,
                 missingDeps |-> dependencyResult.missing[i].missingDeps],
             type |-> "dependency",
             partialId |-> dependencyResult.missing[i].partialId]]

\* the steps of compose after the check of the errors
ComposeSortedByLayer(resolved, cfg, opts, now) ==
    LET sortedPartials == sortPartialsByComposition(resolved,
                                                    cfg.compose.order)
        protectedBlocks == extractProtectedBlocks(<<>>)
        mergedContent ==
            mergePartialsByLayer(sortedPartials, cfg.compose,
                [teamAppendContent |-> opts.teamAppendContent,
                 transformers |-> DefaultTransformers])
        finalContent == mergeProtectedBlocksWithFallback(mergedContent,
                                                         protectedBlocks)
        metadata == createCompositionMetadataByLayer(
                        PackagesOf(sortedPartials, 1, <<>>), sortedPartials,
                        cfg.compose, finalContent, now)
    IN  [kind |-> "composition",
         content |-> generateMetadataHeaderByLayer(metadata) \o <<NL, NL>>
                         \o finalContent,
         metadata |-> metadata]

\* the error thrown inside the try is caught and thrown again, so its
\* message is prefixed twice
composeByLayer(ps, cfg, opts, now) ==
    LET filteredPartials ==
            SelectSeq(ps, LAMBDA partial :
                shouldIncludePartialForProvider(partial, opts.provider))
        includedPartials ==
            SelectSeq(filteredPartials, LAMBDA partial :
                ~(opts.excludePartials.present
                  /\ partial.id \in Range(opts.excludePartials.list)))
        deduplicated == deduplicatePartialsByTier(includedPartials)
        dependencyResult == resolveDependencies(deduplicated.partials)
        errors == DependencyErrors(dependencyResult)
    IN  IF Len(errors) > 0 /\ ~(opts.debug.present /\ opts.debug.value)
        THEN Thrown([prefix |-> <<"Composition failed: ",
                                  "Composition failed: ">>,
                     problems |-> [i \in 1..Len(errors) |->
                                      errors[i].message]])
        ELSE ComposeSortedByLayer(dependencyResult.resolved, cfg, opts, now)

LayeredIds == {"A", "B"}

LayeredDeps == {<<>>, <<"A">>, <<"B">>, <<"C">>}

InitLayered ==
    /\ pc = "start"
    /\ \E c \in SeqsUpTo(LayeredIds \X {"core", "team"} \X LayeredDeps,
                         MaxLayeredPartials) :
            partials = [i \in 1..Len(c) |->
                LayeredPartial(i, c[i][1], c[i][2], c[i][3])]
    /\ config = [compose |-> [order |-> <<"core", "domain", "stack", "team">>,
                              teamAppend |-> TRUE]]
    /\ \E provider \in Providers,
          debug \in {[present |-> FALSE, value |-> FALSE],
                     [present |-> TRUE, value |-> FALSE],
                     [present |-> TRUE, value |-> TRUE]},
          e \in OptionalLists("B") :
            options = [provider |-> provider, debug |-> debug,
                       excludePartials |-> e,
                       teamAppendContent |-> Undefined]
    /\ protectedIds = <<>>
    /\ content = <<>>
    /\ existing = <<>>
    /\ clock = 0
    /\ result = NoResult
    /\ previous = NoResult
    /\ parsed = NoResult

ComposeByLayer ==
    /\ pc = "start"
    /\ result' = composeByLayer(partials, config, options, clock)
    /\ clock' = clock + 1
    /\ pc' = "composedByLayer"
    /\ UNCHANGED <<partials, protectedIds, config, options, content,
                   existing, previous, parsed>>

NextLayered == ComposeByLayer

SpecLayered == InitLayered /\ [][NextLayered]_vars

\* the partials that reach Step 4 of the call
ReachingDependencies ==
    deduplicatePartialsByTier(
        SelectSeq(partials, LAMBDA p :
            ~(options.excludePartials.present
              /\ p.id \in Range(options.excludePartials.list)))).partials

\* some partial of the call names an absent dependency or is on a cycle
HasDependencyAnomaly ==
    LET ps == ReachingDependencies
    IN  \/ \E i \in 1..Len(ps) : \E k \in 1..Len(ps[i].dependsOn) :
                ps[i].dependsOn[k] \notin IdsOf(ps)
        \/ \E i \in 1..Len(ps) : ps[i].id \in Range(ps[i].dependsOn)
        \/ \E i, j \in 1..Len(ps) :
                /\ i # j
                /\ ps[j].id \in Range(ps[i].dependsOn)
                /\ ps[i].id \in Range(ps[j].dependsOn)

\* the caller asked for the strict behaviour in so many words
StrictRequested == options.debug.present /\ ~options.debug.value

\* C21: compose does not fail on a missing dependency reference or a
\* circular dependency chain unless the caller explicitly asked for strict
\* behaviour; when strict behaviour is requested and a problem exists,
\* compose fails with one aggregate error whose message holds every problem.
C21_AnomaliesReportedNotThrown ==
    pc = "composedByLayer" =>
        /\ ~StrictRequested => result.kind = "composition"
        /\ (StrictRequested /\ HasDependencyAnomaly) =>
                /\ result.kind = "thrown"
                /\ \A e \in Range(DependencyErrors(
                                resolveDependencies(ReachingDependencies))) :
                        e.message \in Range(result.message.problems)

\* what the code does: it fails on an anomaly unless debug is set, with
\* one error whose message holds every problem
C21_FailsUnlessDebug ==
    pc = "composedByLayer" =>
        LET errors == DependencyErrors(
                          resolveDependencies(ReachingDependencies))
        IN  /\ (result.kind = "thrown") <=>
                    /\ HasDependencyAnomaly
                    /\ ~(options.debug.present /\ options.debug.value)
            /\ result.kind = "thrown" =>
                    /\ Len(errors) > 0
                    /\ \A e \in Range(errors) :
                            e.message \in Range(result.message.problems)

(***************************************************************************)
(* Two compose calls on one composer, for the two targets, on one list.    *)
(* compose runs from its start to "await mergePartials" in one step and    *)
(* from there to its return in another; between the two the other call may *)
(* run.  Here pc, options, previous and result hold one value per call,    *)
(* previous being the locals a suspended call resumes with, and content    *)
(* is the composer's transformer list, this.transformers.                  *)
(***************************************************************************)
InitParallel ==
    /\ pc = [c \in Providers |-> "start"]
    /\ \E c \in SeqsUpTo(ComposeChoices, MaxComposePartials) :
            partials = [i \in 1..Len(c) |->
                ComposePartial(i, c[i][1], c[i][2], "1.0.0",
                               c[i][3][1], c[i][3][2])]
    /\ \E e \in OptionalLists("X"), p \in OptionalLists("X") :
            /\ config = [exclude |-> e, protected |-> p]
            /\ options = [c \in Providers |->
                            [provider |-> c, exclude |-> e,
                             protected |-> Defined(p.list)]]
    /\ content = DefaultTransformers
    /\ protectedIds = <<>>
    /\ existing = <<>>
    /\ clock = 0
    /\ result = [c \in Providers |-> NoResult]
    /\ previous = [c \in Providers |-> NoResult]
    /\ parsed = NoResult

\* Steps 1 to 5 with the filter of Step 1 done on the caller's list itself
StartComposeFilteringInPlace(c) ==
    /\ pc[c] = "start"
    /\ LET opts == options[c]
           protIds == OrElse(opts.protected, config.protected)
           excludeIds == OrElse(opts.exclude, config.exclude)
           filteredPartials ==
               SelectSeq(partials, LAMBDA partial :
                   shouldIncludePartialForProvider(partial, opts.provider))
           includedPartials == excludePartials(filteredPartials, excludeIds)
           deduplicated == deduplicatePartials(includedPartials, protIds)
           sortedPartials == sortPartialsBySourceIndex(deduplicated.partials)
       IN  /\ previous' = [previous EXCEPT ![c] =
                  [kind |-> "locals", protectedIds |-> protIds,
                   sortedPartials |-> sortedPartials,
                   mergedContent |-> mergePartials(sortedPartials, content)]]
           /\ partials' = filteredPartials
    /\ pc' = [pc EXCEPT ![c] = "awaiting"]
    /\ UNCHANGED <<protectedIds, config, options, content, existing,
                   clock, result, parsed>>

\* compose from its start to the await of Step 5
StartCompose(c) ==
    /\ pc[c] = "start"
    /\ LET opts == options[c]
           protIds == OrElse(opts.protected, config.protected)
           excludeIds == OrElse(opts.exclude, config.exclude)
           filteredPartials ==
               SelectSeq(partials, LAMBDA partial :
                   shouldIncludePartialForProvider(partial, opts.provider))
           includedPartials == excludePartials(filteredPartials, excludeIds)
           deduplicated == deduplicatePartials(includedPartials, protIds)
           sortedPartials == sortPartialsBySourceIndex(deduplicated.partials)
       IN  previous' = [previous EXCEPT ![c] =
               [kind |-> "locals", protectedIds |-> protIds,
                sortedPartials |-> sortedPartials,
                mergedContent |-> mergePartials(sortedPartials, content)]]
    /\ pc' = [pc EXCEPT ![c] = "awaiting"]
    /\ UNCHANGED <<partials, protectedIds, config, options, content,
                   existing, clock, result, parsed>>

\* compose from the await of Step 5 to its return
FinishCompose(c) ==
    /\ pc[c] = "awaiting"
    /\ LET locals == previous[c]
           metadata == createCompositionMetadata(
                           PackagesOf(locals.sortedPartials, 1, <<>>),
                           locals.sortedPartials, locals.protectedIds,
                           locals.mergedContent, clock)
       IN  result' = [result EXCEPT ![c] =
               [kind |-> "composition",
                content |-> generateMetadataHeader(metadata) \o <<NL, NL>>
                                \o locals.mergedContent,
                metadata |-> metadata]]
    /\ clock' = clock + 1
    /\ pc' = [pc EXCEPT ![c] = "done"]
    /\ UNCHANGED <<partials, protectedIds, config, options, content,
                   existing, previous, parsed>>

NextParallel ==
    \E c \in Providers :
        \/ StartCompose(c)
        \/ FinishCompose(c)

SpecParallel == InitParallel /\ [][NextParallel]_vars

\* the clock reading of the call, taken from the timestamp it returned
ClockOf(r) ==
    CHOOSE t \in 0..2 : r.metadata.generatedAt = toISOString(t)

\* each finished call has returned what compose returns for its options on
\* the list when it runs alone at the same clock reading
SameAsAlone ==
    \A c \in Providers :
        pc[c] = "done" =>
            result[c] = compose(partials, config, options[c],
                                ClockOf(result[c]))

\* C22: two compose calls for the two targets on one composer and one
\* partial list, interleaved in any order, each return what the call
\* returns when it runs alone, and no step of either call changes the
\* composer's transformer list or the shared partial list.
C22_IndependentComposition ==
    /\ []SameAsAlone
    /\ [][partials' = partials /\ content' = content]_vars

\* both calls were suspended at once, finished in the other order than
\* they started, and returned different documents
C22_Witness ==
    /\ pc["cursor"] = "done" /\ pc["copilot"] = "done"
    /\ ClockOf(result["copilot"]) = 0
    /\ ClockOf(result["cursor"]) = 1
    /\ SectionIds(result["cursor"].content) = {"X", "Y"}
    /\ SectionIds(result["copilot"].content) = {"X"}

(***************************************************************************)
(* The transformer pipeline of a composer.  content is the composer's      *)
(* transformer list, this.transformers, each entry a name and a priority.  *)
(***************************************************************************)
Transformer(name, priority) == [name |-> name, priority |-> priority]

NamesOf(transformers) ==
    [i \in 1..Len(transformers) |-> transformers[i].name]

\* addTransformer: push, then sort by priority (Array.prototype.sort is
\* stable)
addTransformer(transformers, transformer) ==
    LET pushed == Append(transformers, transformer)
    IN  StableSortByKey(pushed, [i \in 1..Len(pushed) |-> pushed[i].priority])

\* compose of a composer with the transformers registered on it
composeWithTransformers(ps, cfg, opts, now, registered) ==
    LET protIds == OrElse(opts.protected, cfg.protected)
        excludeIds == OrElse(opts.exclude, cfg.exclude)
        filteredPartials ==
            SelectSeq(ps, LAMBDA partial :
                shouldIncludePartialForProvider(partial, opts.provider))
        includedPartials == excludePartials(filteredPartials, excludeIds)
        deduplicated == deduplicatePartials(includedPartials, protIds)
        sortedPartials == sortPartialsBySourceIndex(deduplicated.partials)
        mergedContent ==
            mergePartials(sortedPartials,
                NamesOf(registered \o OrElse(opts.transformers, Undefined)))
        packages == PackagesOf(sortedPartials, 1, <<>>)
        metadata == createCompositionMetadata(packages, sortedPartials,
                                              protIds, mergedContent, now)
    IN  [kind |-> "composition",
         content |-> generateMetadataHeader(metadata) \o <<NL, NL>>
                         \o mergedContent,
         metadata |-> metadata]

\* the transformers a caller registers or passes
CustomTransformers ==
    {Transformer(name, priority) :
        name \in {"redact", "append-a"}, priority \in {50, 150}}

InitPipeline ==
    /\ pc = "constructed"
    /\ content = addTransformer(<<>>, Transformer("remove-empty-lines", 100))
    /\ \E c \in SeqsUpTo(Ids \X {<<Txt("a")>>, <<Txt("b")>>},
                         MaxPipelinePartials) :
            partials = [i \in 1..Len(c) |->
                ComposePartial(i, c[i][1], i - 1, "1.0.0", Undefined,
                               c[i][2])]
    /\ config = [exclude |-> Undefined, protected |-> Undefined]
    /\ \E provider \in Providers :
            options = [provider |-> provider, exclude |-> Undefined,
                       protected |-> Undefined, transformers |-> Undefined]
    /\ protectedIds = <<>>
    /\ existing = <<>>
    /\ clock = 0
    /\ result = NoResult
    /\ previous = NoResult
    /\ parsed = NoResult

AddTransformer ==
    /\ pc = "constructed"
    /\ Len(content) < MaxTransformers
    /\ \E t \in CustomTransformers :
            /\ \A i \in 1..Len(content) : content[i].name # t.name
            /\ content' = addTransformer(content, t)
    /\ UNCHANGED <<pc, partials, protectedIds, config, options, existing,
                   clock, result, previous, parsed>>

\* one call of compose, with or without transformers in its options
ComposeWithTransformers ==
    /\ pc = "constructed"
    /\ \E passed \in {Undefined} \cup
            {Defined(q) : q \in SeqsUpTo(CustomTransformers,
                                         MaxTransformers - Len(content))} :
            /\ \A i \in 1..Len(passed.list) :
                    /\ \A k \in 1..Len(content) :
                            content[k].name # passed.list[i].name
                    /\ \A j \in 1..Len(passed.list) :
                            passed.list[j].name = passed.list[i].name => j = i
            /\ options' = [options EXCEPT !.transformers = passed]
            /\ result' = composeWithTransformers(partials, config,
                             [options EXCEPT !.transformers = passed],
                             clock, content)
    /\ clock' = clock + 1
    /\ pc' = "composed"
    /\ UNCHANGED <<partials, protectedIds, config, content, existing,
                   previous, parsed>>

NextPipeline ==
    \/ AddTransformer
    \/ ComposeWithTransformers

SpecPipeline == InitPipeline /\ [][NextPipeline]_vars

\* the merged content of a composition: what follows its header
MergedOf(r) ==
    SubSeq(r.content, Len(generateMetadataHeader(r.metadata)) + 3,
           Len(r.content))

\* the partials the call merges: no target set and no exclusion here
PipelinePartials ==
    sortPartialsBySourceIndex(deduplicatePartials(partials, <<>>).partials)

\* the transformers of the call: the registered ones and the passed ones
AllTransformers == content \o OrElse(options.transformers, Undefined)

\* the orders of the transformers of the call that ascend in priority
AscendingOrders ==
    LET n == Len(AllTransformers)
    IN  {[i \in 1..n |-> AllTransformers[f[i]]] :
            f \in {g \in [1..n -> 1..n] :
                     /\ \A i, j \in 1..n : g[i] = g[j] => i = j
                     /\ \A i, j \in 1..n :
                            i < j => AllTransformers[g[i]].priority
                                        <= AllTransformers[g[j]].priority}}

\* C23: the transformers applied to each partial, the registered ones
\* together with the ones passed in the options, run in ascending priority
\* order, each on the output of the one before, whatever the order they
\* were registered or passed in.
C23_PipelineOrder ==
    pc = "composed" =>
        \E order \in AscendingOrders :
            MergedOf(result) = mergePartials(PipelinePartials, NamesOf(order))

\* what the code does: the registered transformers in ascending priority
\* order, and after them the passed ones in the order they were passed
C23_RegisteredThenPassed ==
    /\ \A i, j \in 1..Len(content) :
            i < j => content[i].priority <= content[j].priority
    /\ pc = "composed" =>
            MergedOf(result)
                = mergePartials(PipelinePartials, NamesOf(AllTransformers))

(***************************************************************************)
(* resolveDependencies step by step.  previous holds the locals of the     *)
(* running call: the sets visited and visiting, the lists cycles and       *)
(* resolved, the index i of the loop over the partials and the stack of    *)
(* the calls of visit that have not returned, each with the node it was    *)
(* called for, the index k of the dependency its loop is at, and its path. *)
(* A call of visit deeper than MaxStack frames ends the run with the       *)
(* engine's RangeError.                                                    *)
(***************************************************************************)
Frame(node, k, path) == [node |-> node, k |-> k, path |-> path]

Locals(phase) ==
    [kind |-> "locals", phase |-> phase, i |-> 1, stack |-> <<>>,
     visited |-> {}, visiting |-> {}, cycles |-> <<>>, resolved |-> <<>>,
     thrown |-> FALSE]

\* what is common to the two visit functions once the early returns are
\* passed: visiting.add(node) and the new frame
EnterVisit(m, node, path) ==
    IF Len(m.stack) >= MaxStack THEN [m EXCEPT !.thrown = TRUE]
    ELSE [m EXCEPT !.visiting = @ \cup {node},
                   !.stack = Append(@, Frame(node, 1, path))]

\* visit of detectCircularDependencies without its test of visiting
DetectCallWithoutVisiting(m, node, path) ==
    IF node \in m.visited THEN m
    ELSE EnterVisit(m, node, path)

\* the entry of visit(node, path) of detectCircularDependencies
DetectCall(m, node, path) ==
    IF node \in m.visiting
    THEN [m EXCEPT !.cycles =
            Append(@, SliceFrom(path, IndexOf(path, node)) \o <<node>>)]
    ELSE IF node \in m.visited THEN m
    ELSE EnterVisit(m, node, path)

\* the entry of visit(partialId) of topologicalSort
TopoCall(m, partialId) ==
    IF partialId \in m.visiting THEN m
    ELSE IF partialId \in m.visited THEN m
    ELSE EnterVisit(m, partialId, <<>>)

\* the top frame with its loop moved on by one dependency
Advance(m) ==
    [m EXCEPT !.stack[Len(m.stack)].k = @ + 1]

\* the top frame returns
Leave(m) ==
    LET top == m.stack[Len(m.stack)]
    IN  [m EXCEPT !.stack = SubSeq(@, 1, Len(@) - 1),
                  !.visiting = @ \ {top.node},
                  !.visited = @ \cup {top.node}]

\* one step of detectCircularDependencies
DetectNext(m, ps) ==
    LET graph == DependencyGraph(ps)
    IN  IF m.stack = <<>>
        THEN IF m.i > Len(ps) THEN Locals("sort") 
             ELSE IF ps[m.i].id \in m.visited THEN [m EXCEPT !.i = @ + 1]
             ELSE DetectCall([m EXCEPT !.i = @ + 1], ps[m.i].id, <<>>)
        ELSE LET top == m.stack[Len(m.stack)]
                 dependencies == GraphGet(graph, top.node)
             IN  IF top.k <= Len(dependencies)
                 THEN DetectCall(Advance(m), dependencies[top.k],
                                 top.path \o <<top.node>>)
                 ELSE Leave(m)

\* one step of topologicalSort
TopoNext(m, ps) ==
    LET graph == DependencyGraph(ps)
    IN  IF m.stack = <<>>
        THEN IF m.i > Len(ps) THEN [m EXCEPT !.phase = "return"]
             ELSE IF ps[m.i].id \in m.visited THEN [m EXCEPT !.i = @ + 1]
             ELSE TopoCall([m EXCEPT !.i = @ + 1], ps[m.i].id)
        ELSE LET top == m.stack[Len(m.stack)]
                 dependencies == GraphGet(graph, top.node)
             IN  IF top.k <= Len(dependencies)
                 THEN IF dependencies[top.k] \in IdsOf(ps)
                      THEN TopoCall(Advance(m), dependencies[top.k])
                      ELSE Advance(m)
                 ELSE [Leave(m) EXCEPT !.resolved =
                         IF top.node \in IdsOf(ps)
                         THEN Append(@, ps[LastIndexOf(ps, top.node)])
                         ELSE @]

ResolveDepLists ==
    {<<>>, <<"A">>, <<"B">>, <<"C">>, <<"B", "C">>, <<"C", "A">>}

InitResolve ==
    /\ pc = "detecting"
    /\ \E ids \in DistinctSeqs(DepIds, MaxResolvePartials) :
         \E deps \in [1..Len(ids) -> ResolveDepLists] :
            partials = [i \in 1..Len(ids) |-> DepPartial(i, ids[i], deps[i])]
    /\ previous = Locals("detect")
    /\ protectedIds = <<>>
    /\ result = NoResult
    /\ config = NoResult
    /\ options = NoResult
    /\ parsed = NoResult
    /\ content = <<>>
    /\ existing = <<>>
    /\ clock = 0

\* a step of the cycle detection; its last step hands over to the sort
DetectStep ==
    /\ pc = "detecting"
    /\ LET m == DetectNext(previous, partials)
       IN  /\ previous' = [m EXCEPT !.cycles = 
                              IF m.phase = "sort" THEN previous.cycles ELSE @]
           /\ pc' = IF m.thrown THEN "thrown"
                    ELSE IF m.phase = "sort" THEN "sorting" ELSE pc
    /\ UNCHANGED <<partials, protectedIds, config, options, content,
                   existing, clock, result, parsed>>

\* a step of the topological sort
TopoStep ==
    /\ pc = "sorting"
    /\ LET m == TopoNext(previous, partials)
       IN  /\ previous' = m
           /\ pc' = IF m.thrown THEN "thrown"
                    ELSE IF m.phase = "return" THEN "returning" ELSE pc
    /\ UNCHANGED <<partials, protectedIds, config, options, content,
                   existing, clock, result, parsed>>

\* the missing dependencies are collected and the triple is returned
ReturnResolved ==
    /\ pc = "returning"
    /\ result' = [kind |-> "deps", resolved |-> previous.resolved,
                  circular |-> previous.cycles,
                  missing |-> MissingLoop(partials, 1)]
    /\ pc' = "returned"
    /\ UNCHANGED <<partials, protectedIds, config, options, content,
                   existing, clock, previous, parsed>>

NextResolve ==
    \/ DetectStep
    \/ TopoStep
    \/ ReturnResolved

SpecResolve == InitResolve /\ [][NextResolve]_vars /\ WF_vars(NextResolve)

\* C25: for every finite list in which each partial carries a dependency
\* list, with cycles, self-dependencies and references to absent
\* identifiers, resolveDependencies returns after finitely many steps with
\* a (resolved, circular, missing) triple: it never throws, and its
\* recursion never goes deeper than one call per identifier.
C25_ResolverTerminates ==
    /\ <>(pc = "returned")
    /\ [](pc # "thrown")
    /\ [](Len(previous.stack)
            <= Cardinality(IdsOf(partials)
                  \cup UNION {Range(partials[i].dependsOn) :
                                 i \in 1..Len(partials)}))
    /\ [](pc = "returned" =>
            /\ result.kind = "deps"
            /\ result = resolveDependencies(partials))

C25_Witness ==
    /\ pc = "returned"
    /\ Len(partials) = 2
    /\ partials[1].id = "A" /\ partials[1].dependsOn = <<"B", "C">>
    /\ partials[2].id = "B" /\ partials[2].dependsOn = <<"B">>
    /\ Len(result.circular) > 0
    /\ Len(result.missing) > 0

(***************************************************************************)
(* Conflict records of the two deduplicatePartials                         *)
(***************************************************************************)
\* the record of the priority-tier model names the survivor as winner and
\* exactly the other candidates as losers
TierRecordComplete(c) ==
    LET id == c.winner.id
    IN  /\ \A s \in Survivors(id) : c.winner = result.partials[s]
        /\ Len(c.losers) = Cardinality(CandidateRefs(id)) - 1
        /\ Range(c.losers) =
             {partials[i] : i \in CandidateRefs(id)} \ {c.winner}

\* the rule a reason names separates the winner from one of the losers
TierReasonAccurate(c) ==
    /\ c.reason = "protected" =>
          /\ c.winner.protected
          /\ \E k \in 1..Len(c.losers) : ~c.losers[k].protected
    /\ c.reason = "layer-priority" =>
          \E k \in 1..Len(c.losers) : c.losers[k].layer # c.winner.layer
    /\ c.reason = "weight" =>
          \E k \in 1..Len(c.losers) : c.losers[k].weight # c.winner.weight

\* C26: in every conflict record returned by deduplicatePartials the winner
\* is the surviving partial of the output, the overridden list is exactly
\* the other candidates of that identifier, and the recorded reason names
\* the precedence rule that decided the winner ('protected' only when
\* protection decided it).
C26_ConflictRecordsAccurate ==
    pc = "done" =>
      \A k \in 1..Len(result.conflicts) :
         /\ TierRecordComplete(result.conflicts[k])
         /\ TierReasonAccurate(result.conflicts[k])

\* what the priority-tier code does keep: winner and losers are complete
C26_TierRecordsComplete ==
    pc = "done" =>
      \A k \in 1..Len(result.conflicts) :
         TierRecordComplete(result.conflicts[k])

\* the positional model: every record is complete, and its reason is
\* 'protected' exactly when the identifier is in the protected list
C26_PositionalRecords ==
    pc = "done" =>
      \A k \in 1..Len(result.conflicts) :
         LET c == result.conflicts[k]
         IN  RecordsDiscarded(c.partialId,
                IF c.partialId \in Range(protectedIds)
                THEN "protected" ELSE "last-wins")

(***************************************************************************)
(* Ties in the final order                                                 *)
(***************************************************************************)
\* no identifier occurs twice in the list handed to the sort
Deduplicated ==
    \A i \in 1..Len(partials), j \in 1..Len(partials) :
        partials[i].id = partials[j].id => i = j

\* C27: whenever two deduplicated partials are equal on the ordering keys
\* (the same declaration index in the positional model), the one with the
\* lexicographically smaller identifier comes first in the final order,
\* whatever the order of the input list.
C27_TiesBrokenByIdentifier ==
    (pc = "done" /\ Deduplicated) =>
        \A i \in 1..Len(result.partials), j \in 1..Len(result.partials) :
            (/\ i < j
             /\ result.partials[i].sourceIndex
                    = result.partials[j].sourceIndex)
                => NameRank(result.partials[i].id)
                       < NameRank(result.partials[j].id)

\* the priority-tier model: partials of the same tier position and weight
\* stand in the order of their identifiers
C27_TierTiesBrokenByIdentifier ==
    (pc = "done" /\ Deduplicated) =>
        \A i \in 1..Len(result.partials), j \in 1..Len(result.partials) :
            (/\ i < j
             /\ LayerOrder(config.order, result.partials[i].layer)
                    = LayerOrder(config.order, result.partials[j].layer)
             /\ result.partials[i].weight = result.partials[j].weight)
                => NameRank(result.partials[i].id)
                       < NameRank(result.partials[j].id)

(***************************************************************************)
(* SpecTransform: the default transformer of a PolicyComposer applied to a *)
(* text, and then to its own output.  content is the text, existing the    *)
(* text after one application, result the text after two.                  *)
(***************************************************************************)
TextTokens == {NL, SP, Txt("a")}

InitTransform ==
    /\ pc = "constructed"
    /\ content \in SeqsUpTo(TextTokens, MaxTextLen)
    /\ existing = <<>>
    /\ partials = <<>>
    /\ protectedIds = <<>>
    /\ result = NoResult
    /\ config = NoResult
    /\ options = NoResult
    /\ previous = NoResult
    /\ parsed = NoResult
    /\ clock = 0

\* transformer.transform(content)
TransformOnce ==
    /\ pc = "constructed"
    /\ existing' = Transform(DefaultTransformers[1], content)
    /\ pc' = "once"
    /\ UNCHANGED <<partials, protectedIds, result, config, options, content,
                   clock, previous, parsed>>

\* transformer.transform(transformer.transform(content))
TransformTwice ==
    /\ pc = "once"
    /\ result' = [kind |-> "text",
                  text |-> Transform(DefaultTransformers[1], existing)]
    /\ pc' = "twice"
    /\ UNCHANGED <<partials, protectedIds, config, options, content,
                   existing, clock, previous, parsed>>

NextTransform ==
    \/ TransformOnce
    \/ TransformTwice

SpecTransform == InitTransform /\ [][NextTransform]_vars

Words(text) == SelectSeq(text, LAMBDA tok : ~IsWhitespace(tok))

\* the positions of the whitespace between the g-th word and the next
GapOf(text, g) ==
    {i \in 1..Len(text) :
        /\ IsWhitespace(text[i])
        /\ Cardinality({j \in 1..i : ~IsWhitespace(text[j])}) = g}

GapBreaks(text, g) == {i \in GapOf(text, g) : text[i] = NL}

GapSpaces(text, g) == Cardinality(GapOf(text, g) \ GapBreaks(text, g))

\* C28: the default transformer of a PolicyComposer rewrites every run of
\* three or more line breaks (with nothing but whitespace between them) to
\* exactly one blank line, that is two adjacent line breaks, leaves
\* every other stretch of the text as it is, and applying it twice gives
\* the same text as applying it once.
C28_WhitespaceIdempotence ==
    /\ pc \in {"once", "twice"} =>
         /\ Words(existing) = Words(content)
         /\ \A g \in 0..Len(Words(content)) :
              IF Cardinality(GapBreaks(content, g)) >= 3
              THEN /\ Cardinality(GapBreaks(existing, g)) = 2
                   /\ \E i \in GapBreaks(existing, g) :
                         i + 1 \in GapBreaks(existing, g)
                   /\ GapSpaces(existing, g) <= GapSpaces(content, g)
              ELSE [i \in 1..Cardinality(GapOf(existing, g)) |-> 
                        existing[Min(GapOf(existing, g)) + i - 1]]
                   = [i \in 1..Cardinality(GapOf(content, g)) |-> 
                        content[Min(GapOf(content, g)) + i - 1]]
    /\ pc = "twice" => result.text = existing

C28_Witness ==
    /\ pc = "twice"
    /\ content = <<Txt("a"), NL, SP, NL, NL, NL>>
    /\ existing = <<Txt("a"), NL, NL>>
    /\ result.text = existing

(***************************************************************************)
(* validateProtectedBlocks.  Its three patterns differ: a begin marker is  *)
(* "<!-- BEGIN PROTECTED:id -->" with an identifier free of whitespace,    *)
(* while the count of nested begins looks for "<!-- BEGIN PROTECTED:"      *)
(* alone, which also occurs in a text that is no begin marker (no          *)
(* identifier, or whitespace before the closing "-->").  Such a text is    *)
(* the token bopen.                                                        *)
(***************************************************************************)
BeginOpening == Tok("bopen", "", "")

\* the matches of /<!--\s*BEGIN\s+PROTECTED:([^\s]+)\s*-->/g
BeginMatches(text) == {i \in 1..Len(text) : text[i].t = "begin"}

\* the matches of /<!--\s*END\s+PROTECTED\s*-->/g
EndMatches(text) == {i \in 1..Len(text) : text[i].t = "end"}

\* the matches of /<!--\s*BEGIN\s+PROTECTED:/g
OpeningMatches(text) == {i \in 1..Len(text) : text[i].t \in {"begin", "bopen"}}

UnmatchedError(begins, ends) ==
    [message |-> "Unmatched protected block markers", begins |-> begins,
     ends |-> ends, blockId |-> ""]

NestedError(blockId) ==
    [message |-> "contains nested protected blocks", begins |-> 0,
     ends |-> 0, blockId |-> blockId]

\* the while loop over protectedRegex.exec(content)
RECURSIVE NestedLoop(_, _)
NestedLoop(text, from) ==
    LET begins == {i \in from..Len(text) : text[i].t = "begin"}
    IN  IF begins = {} THEN <<>>
        ELSE LET b == Min(begins)
                 ends == {j \in (b + 1)..Len(text) : text[j].t = "end"}
             IN  IF ends = {} THEN <<>>
                 ELSE LET e == Min(ends)
                          fullMatch == SubSeq(text, b, e)
                          nestedBegin == Cardinality(OpeningMatches(fullMatch))
                      IN  (IF nestedBegin > 1
                           THEN <<NestedError(text[b].v)>> ELSE <<>>)
                              \o NestedLoop(text, e + 1)

validateProtectedBlocks(text) ==
    LET beginMatches == Cardinality(BeginMatches(text))
        endMatches == Cardinality(EndMatches(text))
    IN  (IF beginMatches # endMatches
         THEN <<UnmatchedError(beginMatches, endMatches)>> ELSE <<>>)
            \o NestedLoop(text, 1)

MarkerTokens ==
    {BeginMarker("X"), BeginMarker("Y"), EndMarker, Txt("w"), BeginOpening}

InitMarkers ==
    /\ pc = "start"
    /\ content \in SeqsUpTo(MarkerTokens, MaxMarkerLen)
    /\ existing = <<>>
    /\ partials = <<>>
    /\ protectedIds = <<>>
    /\ result = NoResult
    /\ config = NoResult
    /\ options = NoResult
    /\ previous = NoResult
    /\ parsed = NoResult
    /\ clock = 0

ValidateProtectedBlocks ==
    /\ pc = "start"
    /\ result' = [kind |-> "errors",
                  errors |-> validateProtectedBlocks(content)]
    /\ pc' = "validated"
    /\ UNCHANGED <<partials, protectedIds, config, options, content,
                   existing, clock, previous, parsed>>

\* the same document handed to extractProtectedBlocks
ExtractAfterValidation ==
    /\ pc = "validated"
    /\ previous' = [kind |-> "blocks",
                    blocks |-> extractProtectedBlocks(content)]
    /\ pc' = "extracted"
    /\ UNCHANGED <<partials, protectedIds, config, options, content,
                   existing, clock, result, parsed>>

NextMarkers ==
    \/ ValidateProtectedBlocks
    \/ ExtractAfterValidation

SpecMarkers == InitMarkers /\ [][NextMarkers]_vars

\* the spans the scan takes: a begin marker that follows the previous span
\* and the first end marker after it
RECURSIVE ScanSpans(_, _)
ScanSpans(text, from) ==
    LET begins == {i \in from..Len(text) : text[i].t = "begin"}
    IN  IF begins = {} THEN {}
        ELSE LET b == Min(begins)
                 ends == {j \in (b + 1)..Len(text) : text[j].t = "end"}
             IN  IF ends = {} THEN {}
                 ELSE {<<b, Min(ends)>>} \cup ScanSpans(text, Min(ends) + 1)

HasSecondBegin(span) ==
    \E i \in (span[1] + 1)..(span[2] - 1) : content[i].t = "begin"

HasSecondOpening(span) ==
    \E i \in (span[1] + 1)..(span[2] - 1) : content[i].t \in {"begin", "bopen"}

ErrorsWith(message) ==
    {k \in 1..Len(result.errors) : result.errors[k].message = message}

Validated == pc \in {"validated", "extracted"}

\* C29: validateProtectedBlocks returns an 'unmatched markers' error if and
\* only if the number of begin markers differs from the number of end
\* markers; it returns a 'nested' error naming the block for every span
\* from a begin marker to the first end marker after it that contains a
\* second begin marker; and a document whose blocks are balanced and not
\* nested gets no error.
C29_MarkerValidation ==
    Validated =>
        /\ (ErrorsWith("Unmatched protected block markers") # {})
              <=> (Cardinality(BeginMatches(content))
                      # Cardinality(EndMatches(content)))
        /\ \A span \in ScanSpans(content, 1) :
              HasSecondBegin(span) =>
                 \E k \in ErrorsWith("contains nested protected blocks") :
                    result.errors[k].blockId = content[span[1]].v
        /\ (/\ Cardinality(BeginMatches(content))
                  = Cardinality(EndMatches(content))
            /\ \A span \in ScanSpans(content, 1) : ~HasSecondBegin(span))
              => result.errors = <<>>

\* what the code reports: the count error as claimed, and one nested error
\* for each span that holds a second "<!-- BEGIN PROTECTED:", marker or not
C29_NestedByOpening ==
    Validated =>
        /\ (ErrorsWith("Unmatched protected block markers") # {})
              <=> (Cardinality(BeginMatches(content))
                      # Cardinality(EndMatches(content)))
        /\ Cardinality(ErrorsWith("contains nested protected blocks"))
              = Cardinality({span \in ScanSpans(content, 1) :
                                HasSecondOpening(span)})
        /\ \A span \in ScanSpans(content, 1) :
              HasSecondOpening(span) =>
                 \E k \in ErrorsWith("contains nested protected blocks") :
                    result.errors[k].blockId = content[span[1]].v

\* the claim holds in full on documents without a "<!-- BEGIN PROTECTED:"
\* that is no marker
C29_HoldsWithoutStrayOpenings ==
    (Validated /\ \A i \in 1..Len(content) : content[i].t # "bopen")
        => C29_MarkerValidation

(***************************************************************************)
(* SpecFrame: the arrays the three functions read and write.  partials is  *)
(* the array of the caller, existing the copy the caller took of it before *)
(* the call (const original = [...partials]).  previous holds the arrays   *)
(* the running function has allocated, by the names they have in the code, *)
(* the name of the array it was handed (input) and the name of the array   *)
(* its sort works on (target).  A step writes the array the code writes:   *)
(* filter and deduplicatePartials fill arrays of their own, sort writes    *)
(* its receiver.                                                           *)
(***************************************************************************)
LocalArrays ==
    {"filteredPartials", "includedPartials", "deduplicatedPartials", "copy"}

NoLocals ==
    [kind |-> "arrays", input |-> "partials", target |-> "none",
     arrays |-> [name \in LocalArrays |-> <<>>]]

ReadArray(name) ==
    IF name = "partials" THEN partials ELSE previous.arrays[name]

\* the array called name gets value; locals is the rest of the new frame
Store(name, value, locals) ==
    /\ partials' = IF name = "partials" THEN value ELSE partials
    /\ previous' = IF name = "partials" THEN locals
                   ELSE [locals EXCEPT !.arrays[name] = value]

\* [...receiver] with no new array allocated: the receiver itself
SpreadAliasing(receiver) == receiver

\* [...receiver]: the array the spread allocates
Spread(receiver) == "copy"

InitFrame ==
    /\ pc = "start"
    /\ \E c \in SeqsUpTo(ComposeChoices, MaxFramePartials) :
            partials = [i \in 1..Len(c) |->
                ComposePartial(i, c[i][1], c[i][2], "1.0.0",
                               c[i][3][1], c[i][3][2])]
    /\ existing = partials
    /\ \E p \in OptionalLists("X") :
            config = [exclude |-> Undefined, protected |-> p]
    /\ \E provider \in Providers, e \in OptionalLists("Y") :
            options = [provider |-> provider, exclude |-> e,
                       protected |-> Undefined]
    /\ protectedIds = OrElse(options.protected, config.protected)
    /\ previous = NoLocals
    /\ result = NoResult
    /\ parsed = NoResult
    /\ content = <<>>
    /\ clock = 0

\* Steps 1 and 2 of compose: the two filters
FrameFilter ==
    /\ pc = "start"
    /\ LET filtered ==
              SelectSeq(ReadArray("partials"), LAMBDA partial :
                  shouldIncludePartialForProvider(partial, options.provider))
           included ==
              excludePartials(filtered,
                              OrElse(options.exclude, config.exclude))
       IN  Store("includedPartials", included,
                 [previous EXCEPT !.arrays["filteredPartials"] = filtered,
                                  !.input = "includedPartials"])
    /\ pc' = "filtered"
    /\ UNCHANGED <<protectedIds, config, options, content, existing, clock,
                   result, parsed>>

\* deduplicatePartials, called by the caller or as Step 3 of compose: the
\* groups of its Map and the copies its resolveConflict sorts are arrays of
\* its own; the winners are pushed on deduplicatedPartials
FrameDeduplicate ==
    /\ pc \in {"start", "filtered"}
    /\ LET r == deduplicatePartials(ReadArray(previous.input), protectedIds)
       IN  /\ Store("deduplicatedPartials", r.partials,
                    [previous EXCEPT !.input = "deduplicatedPartials"])
           /\ result' = IF pc = "start"
                        THEN [kind |-> "list", of |-> "deduplicatePartials",
                              ref |-> "deduplicatedPartials",
                              list |-> r.partials]
                        ELSE result
    /\ pc' = IF pc = "start" THEN "returned" ELSE "deduplicated"
    /\ UNCHANGED <<protectedIds, config, options, content, existing, clock,
                   parsed>>

\* sortPartialsBySourceIndex, first half: [...partials]
FrameSpread ==
    /\ pc \in {"start", "deduplicated"}
    /\ Store("copy", ReadArray(previous.input),
             [previous EXCEPT !.target = Spread(previous.input)])
    /\ pc' = IF pc = "start" THEN "spread" ELSE "composeSpread"
    /\ UNCHANGED <<protectedIds, config, options, content, existing, clock,
                   result, parsed>>

\* sortPartialsBySourceIndex, second half: .sort(...) on the array the
\* spread gave, in place, and the return of that array
FrameSort ==
    /\ pc \in {"spread", "composeSpread"}
    /\ LET sorted == sortPartialsBySourceIndex(ReadArray(previous.target))
       IN  /\ Store(previous.target, sorted, previous)
           /\ result' = IF pc = "spread"
                        THEN [kind |-> "list",
                              of |-> "sortPartialsBySourceIndex",
                              ref |-> previous.target, list |-> sorted]
                        ELSE result
    /\ pc' = IF pc = "spread" THEN "returned" ELSE "composeSorted"
    /\ UNCHANGED <<protectedIds, config, options, content, existing, clock,
                   parsed>>

\* Steps 5 to 7 of compose: strings and records built from the sorted array
FrameMerge ==
    /\ pc = "composeSorted"
    /\ LET sortedPartials == ReadArray(previous.target)
           mergedContent == mergePartials(sortedPartials, DefaultTransformers)
           metadata == createCompositionMetadata(
                           PackagesOf(sortedPartials, 1, <<>>), sortedPartials,
                           protectedIds, mergedContent, clock)
       IN  result' = [kind |-> "composition",
                      content |-> generateMetadataHeader(metadata)
                                      \o <<NL, NL>> \o mergedContent,
                      metadata |-> metadata]
    /\ pc' = "returned"
    /\ UNCHANGED <<partials, protectedIds, config, options, content,
                   existing, clock, previous, parsed>>

NextFrame ==
    \/ FrameFilter
    \/ FrameDeduplicate
    \/ FrameSpread
    \/ FrameSort
    \/ FrameMerge

SpecFrame == InitFrame /\ [][NextFrame]_vars

\* C30: deduplicatePartials, sortPartialsBySourceIndex and compose return
\* new lists and leave the caller's partial list, its length, its order and
\* each partial's fields, as it was before the call: at every step the
\* caller's array equals the copy taken before the call, the array returned
\* is not the caller's, and what is returned is what the function computes
\* from the unchanged list.
C30_InputsUnchanged ==
    /\ partials = existing
    /\ (pc = "returned" /\ result.kind = "list") =>
          /\ result.ref # "partials"
          /\ result.of = "sortPartialsBySourceIndex" =>
                result.list = sortPartialsBySourceIndex(existing)
          /\ result.of = "deduplicatePartials" =>
                result.list
                    = deduplicatePartials(existing, protectedIds).partials
    /\ (pc = "returned" /\ result.kind = "composition") =>
          result = compose(existing, config, options, clock)

\* an unsorted list with a contested identifier went through the sort
C30_Witness ==
    /\ pc = "returned"
    /\ result.kind = "list"
    /\ result.of = "sortPartialsBySourceIndex"
    /\ Len(partials) = 2
    /\ partials[1].sourceIndex > partials[2].sourceIndex
    /\ result.list # partials
    /\ partials = existing

====
